---- MODULE Spec2Model ----
(***************************************************************************)
(* A model of the HTTP server of src/server.ts: the users and tasks        *)
(* tables, the cookie session of each browser and the bearer tokens signed *)
(* so far.  Every request handler is an operator from the current state    *)
(* and the request to an outcome (the response and the state it leaves),   *)
(* and an action that applies that outcome.  The calendar routes call a    *)
(* third-party calendar, whose events are part of the state, and the       *)
(* addTodo handler of the client is a process of three steps around its    *)
(* two requests.                                                           *)
(***************************************************************************)
EXTENDS FiniteSets, Integers, Sequences, TLC

\* ------------------------------------------------------------------ bounds
\* The clock readings jwt.sign can stamp a token with are 0..MaxTime.
MaxTime == 1
\* The third-party calendar holds at most MaxEvents events.
MaxEvents == 1
\* The task list of a client holds at most MaxTodos tasks.
MaxTodos == 1
\* A client has at most MaxInFlight toggleTodo and deleteTodo requests under
\* way, and the server at most MaxInFlight calls of the third-party calendar.
MaxInFlight == 2

\* --------------------------------------------------------------- JS values
\* A value of a JSON request body: undefined (the field is missing), a
\* string, a number or a boolean.
Undef == [t |-> "undefined", v |-> ""]
Str(s) == [t |-> "string", v |-> s]
Num(s) == [t |-> "number", v |-> s]
Bool(s) == [t |-> "boolean", v |-> s]

TruthyIfDefined(x) == x.t # "undefined"
\* JavaScript truthiness, as used by `!x`, `x ? a : b` and `x || d`.
Truthy(x) ==
    /\ x.t # "undefined"
    /\ ~(x.t = "string" /\ x.v = "")
    /\ ~(x.t = "number" /\ x.v = "0")
    /\ ~(x.t = "boolean" /\ x.v = "false")

\* The SQL NULL, and the column value better-sqlite3 binds for a JS value.
Null == "<NULL>"
Bind(x) == IF x.t = "undefined" THEN Null ELSE x.v

\* `x || d` for a string default d.
OrElse(x, d) == IF Truthy(x) THEN x ELSE Str(d)

\* ------------------------------------------------------------ input domains
Clients == {"browser1", "browser2"}
UserIds == {"k3x9", "p7q2"}
Emails == {Undef, Str(""), Str("ana@x.com"), Str("bob@x.com")}
Passwords == {Undef, Str(""), Str("secret"), Str("other"), Num("7")}
Names == {Undef, Str(""), Str("Ana")}
TaskIds == {"t1", "t2"}
Texts == {Undef, Str("buy milk")}
DueDates == {Undef, Str("2026-01-01T10:00"), Str("2026-01-01T09:30")}
Flags == {Bool("true"), Bool("false")}
\* The values a PUT body can carry in its completed field.
CompletedInputs == Flags \cup {Undef, Str("yes"), Num("0")}
\* The ids a request path can name: those of the task bodies and one that no
\* task ever has.
PathIds == TaskIds \cup {"t9"}
Brandings ==
    {[brandName |-> Str("Acme"), logoUrl |-> Undef,
      primaryColor |-> Str("#112233"), customDomain |-> Str("acme.example")]}
\* The bodies of PUT /api/user/branding: every field omitted, empty or set.
AllBrandings ==
    [brandName : {Undef, Str(""), Str("Acme")},
     logoUrl : {Undef, Str("https://acme.example/logo.png")},
     primaryColor : {Undef, Str(""), Str("#112233")},
     customDomain : {Undef, Str("acme.example")}]
ExpressMajors == {4, 5}
Times == 0..MaxTime

\* A usable field value: a non-empty string.
Good(x) == x.t = "string" /\ x.v # ""
Defects(b) == Cardinality({f \in DOMAIN b : ~Good(b[f])})

\* The request bodies of register and login: every combination of usable
\* values, and every body with one missing, empty or non-string field.
AllRegisterBodies == [name : Names, email : Emails, password : Passwords]
AllLoginBodies == [email : Emails, password : Passwords]
RegisterBodies == {b \in AllRegisterBodies : Defects(b) <= 1}
LoginBodies == {b \in AllLoginBodies : Defects(b) <= 1}

\* The request bodies of POST /api/tasks.
TaskBody(id, text, due) ==
    [id |-> id, text |-> text, priority |-> Str("medium"), dueDate |-> due,
     googleEventId |-> Undef, reminderType |-> Undef,
     reminderTiming |-> Undef, contactInfo |-> Undef]
TaskBodies == {TaskBody(id, text, due) : id \in TaskIds, text \in Texts, due \in DueDates}
\* Bodies with every optional field omitted, supplied, or supplied as the
\* empty string.
OptionalFields ==
    {[priority |-> Undef, googleEventId |-> Undef, reminderType |-> Undef,
      reminderTiming |-> Undef, contactInfo |-> Undef],
     [priority |-> Str("high"), googleEventId |-> Str("evt_1"),
      reminderType |-> Str("email"), reminderTiming |-> Str("24h"),
      contactInfo |-> Str("ana@x.com")],
     [priority |-> Str("low"), googleEventId |-> Undef,
      reminderType |-> Str(""), reminderTiming |-> Str(""),
      contactInfo |-> Str("")]}
FullTaskBodies ==
    {[id |-> id, text |-> Str("buy milk"), priority |-> o.priority,
      dueDate |-> due, googleEventId |-> o.googleEventId,
      reminderType |-> o.reminderType, reminderTiming |-> o.reminderTiming,
      contactInfo |-> o.contactInfo] :
        id \in TaskIds, due \in DueDates, o \in OptionalFields}

\* ------------------------------------------------------------------ tokens
JWT_SECRET == "brandbuilder-secret-key"
UndefinedToken == [kind |-> "undefined", userId |-> "", iat |-> 0, key |-> ""]
EmptyToken == [kind |-> "empty", userId |-> "", iat |-> 0, key |-> ""]
GarbageToken == [kind |-> "garbage", userId |-> "", iat |-> 0, key |-> ""]
Jwt(u, at, k) == [kind |-> "jwt", userId |-> u, iat |-> at, key |-> k]
ForgedTokens == {Jwt(u, 0, "not-the-secret") : u \in UserIds}

\* The Authorization header: absent, the empty string the client sends when
\* it holds no token, the bare word "Bearer", or "Bearer " followed by a
\* credential (which may be the empty string).
NoHeader == [scheme |-> "absent", cred |-> UndefinedToken]
EmptyHeader == [scheme |-> "", cred |-> UndefinedToken]
BareBearer == [scheme |-> "Bearer", cred |-> UndefinedToken]
Bearer(tok) == [scheme |-> "Bearer ", cred |-> tok]

VARIABLES users, tasks, session, issued, registered, remote, app,
          oauth2Client, awaiting
vars == <<users, tasks, session, issued, registered, remote, app,
          oauth2Client, awaiting>>
\* The server and the third-party calendar: oauth2Client holds the
\* credentials of the one OAuth2 client of the process, awaiting the calendar
\* handlers that await the answer of the third party.
server == <<users, tasks, session, issued, registered, remote, oauth2Client,
            awaiting>>

\* ------------------------------------------------------- library functions
\* bcrypt.hash(password, 10): a one-way digest, never the plaintext.
BcryptHash(password) == [alg |-> "$2a$10$", digest |-> password.v]
BcryptCompareOtherVersion(s, hash) == hash.alg = "$2b$10$" /\ hash.digest = s.v
\* bcrypt.compare(s, hash) for a string s.
BcryptCompare(s, hash) == hash.alg = "$2a$10$" /\ hash.digest = s.v

\* jwt.sign({ userId }, JWT_SECRET) at clock reading `at` (the iat claim).
JwtSign(userId, at) == Jwt(userId, at, JWT_SECRET)
JwtVerifySessionBound(token) ==
    /\ token.kind = "jwt"
    /\ token.key = JWT_SECRET
    /\ \E c \in DOMAIN session : session[c].token = token
JwtVerifyUnsigned(token) == token.kind = "jwt"
\* jwt.verify(token, JWT_SECRET) does not throw.
JwtVerify(token) == token.kind = "jwt" /\ token.key = JWT_SECRET

\* ------------------------------------------------------------------ session
EmptySession == [token |-> UndefinedToken, tokens |-> Null]

\* req.session!.token = token
SetSessionTokenDropped(c, token) == session
SetSessionToken(c, token) == [session EXCEPT ![c].token = token]

\* const token = authHeader?.startsWith('Bearer ') ? authHeader.substring(7)
\*                                                 : req.session?.token;
ResolveToken(authHeader, sess) ==
    IF authHeader.scheme = "Bearer " THEN authHeader.cred ELSE sess.token

\* `!token`
NoToken(token) == token.kind \in {"undefined", "empty"}

\* The headers a request can carry in the current state.
Headers ==
    {NoHeader, EmptyHeader, BareBearer, Bearer(EmptyToken), Bearer(GarbageToken)}
        \cup {Bearer(t) : t \in issued \cup ForgedTokens}

\* The headers the requests of a run carry: none (the cookie session
\* decides), a malformed credential, or a token issued earlier.
RunHeaders == {NoHeader, Bearer(GarbageToken)} \cup {Bearer(t) : t \in issued}

\* ----------------------------------------------------------------- outcomes
NoBody ==
    [json |-> FALSE, error |-> "", success |-> FALSE, userId |-> "",
     token |-> UndefinedToken, isAuthenticated |-> FALSE, email |-> "",
     tasks |-> <<>>, name |-> "", isPremium |-> FALSE, brandName |-> "",
     logoUrl |-> "", primaryColor |-> "", customDomain |-> "",
     events |-> <<>>, id |-> ""]
JsonBody == [NoBody EXCEPT !.json = TRUE]
ErrorBody(msg) == [JsonBody EXCEPT !.error = msg]
SuccessBody == [JsonBody EXCEPT !.success = TRUE]

\* A handler that answers and leaves the stores and the session alone.
Answer(status, body) ==
    [status |-> status, body |-> body, uncaught |-> FALSE, users |-> users,
     tasks |-> tasks, session |-> session, issued |-> issued,
     registered |-> registered, remote |-> remote, calls |-> 0,
     oauth2Client |-> oauth2Client]

\* An error that reaches Express: a synchronous throw goes to the default
\* error handler (500, an HTML page); a rejected promise of an async handler
\* does the same in Express 5 and is left unhandled, with no response, in
\* Express 4.
Thrown(async, major) ==
    IF async /\ major = 4
    THEN [Answer(0, NoBody) EXCEPT !.uncaught = TRUE]
    ELSE Answer(500, NoBody)

\* The server and the third-party calendar after a request with outcome o.
Handle(o) ==
    /\ users' = o.users
    /\ tasks' = o.tasks
    /\ session' = o.session
    /\ issued' = o.issued
    /\ registered' = o.registered
    /\ remote' = o.remote
    /\ oauth2Client' = o.oauth2Client
    /\ UNCHANGED awaiting

\* A request with outcome o that is not one of a client's addTodo.
Apply(o) == Handle(o) /\ UNCHANGED app

\* -------------------------------------------------------------------- users
NewUser(id, name, email, hashedPassword) ==
    [id |-> id, email |-> Bind(email), password |-> hashedPassword,
     name |-> Bind(name), isPremium |-> 0, brandName |-> Null,
     logoUrl |-> Null, primaryColor |-> "#059669", customDomain |-> Null]

\* SELECT * FROM users WHERE email = ?   (NULL equals nothing)
UserByEmail(email) == {u \in users : u.email = Bind(email) /\ Bind(email) # Null}
\* SELECT ... FROM users WHERE id = ?
UserById(id) == {u \in users : u.id = id}

InsertUserFailsOnIdOnly(row) == \E u \in users : u.id = row.id
\* The constraints of the users table: id PRIMARY KEY, email UNIQUE.
InsertUserFails(row) ==
    \/ \E u \in users : u.id = row.id
    \/ \E u \in users : u.email = row.email

\* ------------------------------------------------------------------- client
\* String.prototype.trim, on the texts the form can hold.
Trim(s) == IF s = "  " THEN "" ELSE s

\* The state addTodo reads when the form is submitted: the text, the due
\* date ('' when none is set), the calendar option, whether a user is logged
\* in, and the id Math.random and Date.now give the new task.
Forms ==
    [newTodo : {"buy milk", "  "}, dueDate : {"", "2026-01-01T10:00"},
     syncWithGoogle : BOOLEAN, user : BOOLEAN, id : {"t1"}]
NoForm ==
    [newTodo |-> "", dueDate |-> "", syncWithGoogle |-> FALSE, user |-> FALSE,
     id |-> ""]

\* Date.prototype.toISOString of new Date(dueDate) and of one hour later, in
\* a browser three hours behind UTC.
ToISOString(dueDate) ==
    IF dueDate = "2026-01-01T10:00" THEN "2026-01-01T13:00:00.000Z"
    ELSE "Invalid Date"
HourLater(dueDate) ==
    IF dueDate = "2026-01-01T10:00" THEN "2026-01-01T14:00:00.000Z"
    ELSE "Invalid Date"

\* The body addTodo sends to POST /api/calendar/events.
CalendarBody(form) ==
    [summary |-> form.newTodo, description |-> "Priority: medium",
     startDateTime |-> ToISOString(form.dueDate),
     endDateTime |-> HourLater(form.dueDate)]
CalendarBodies == {CalendarBody(f) : f \in {g \in Forms : g.dueDate # ""}}

\* The todo addTodo builds, as JSON.stringify sends it to POST /api/tasks.
NewTodo(form, googleEventId) ==
    [id |-> form.id, text |-> Str(form.newTodo), completed |-> Bool("false"),
     priority |-> Str("medium"),
     dueDate |-> IF form.dueDate = "" THEN Undef ELSE Str(form.dueDate),
     googleEventId |-> googleEventId, reminderType |-> Str("none"),
     reminderTiming |-> Str("1h"), contactInfo |-> Undef]
NoTodo == NewTodo(NoForm, Undef)

\* What addTodo has learnt from its calendar request.
NotAsked == [asked |-> FALSE, ok |-> FALSE, id |-> ""]

\* The offsets of the browser's time zone from UTC, in minutes east of
\* Greenwich, and the days of the month the calendar grid shows.  Days are
\* numbered from 2025-12-31 = 0, instants in minutes from the start of that
\* day in UTC.
Offsets == {-180, 0, 60}
CalendarDays == {1, 2}
MinutesPerDay == 1440

\* No day cell has been computed.
NoCell == [day |-> 0, entries |-> <<>>]

\* The readings of the browser's clock, in minutes of local time, around the
\* due time 10:00 of 2026-01-01: 09:45, 09:55 and 10:05.
Instants == {2025, 2035, 2045}
TenMinutes == 10

\* The state the reminder effect depends on at the first render, and the
\* effect of that render: deps is the state its closure holds, timer the
\* state right after the latest start or tick of its interval.
FirstDeps == [todos |-> <<>>, notificationsEnabled |-> FALSE, notifiedTasks |-> {}]
FirstEffect == [deps |-> FirstDeps, timer |-> FirstDeps]

\* A client with no addTodo under way: pc is the await addTodo stands at,
\* alert, logged and confirmation are what the latest addTodo has shown or
\* logged; events is the list fetchEvents has stored, tz the offset of the
\* browser's time zone and cell the latest day cell of the calendar grid;
\* user, authMode and auth_token (the localStorage item) are the login state
\* of the page, replies the answers to GET /api/auth/status that a call
\* awaits, leaving is set while handleLogout awaits its fetch, and loggedOut
\* records that handleLogout has completed and that no login or
\* registration has succeeded since.
\* inflight holds the toggleTodo and deleteTodo calls that await their
\* response; now is the browser's clock, notifications the notifications
\* shown since the page was loaded.
IdleApp ==
    [pc |-> "idle", form |-> NoForm, googleEventId |-> Undef,
     calendar |-> NotAsked, todo |-> NoTodo, todos |-> <<>>, alert |-> "",
     logged |-> FALSE, confirmation |-> FALSE,
     events |-> <<>>, tz |-> -180, cell |-> NoCell,
     inflight |-> {}, notificationsEnabled |-> FALSE, notifiedTasks |-> {},
     notifications |-> <<>>, now |-> 2025, effect |-> FirstEffect,
     user |-> Null, authMode |-> "login", auth_token |-> UndefinedToken,
     replies |-> {}, leaving |-> FALSE, loggedOut |-> FALSE]

\* A fetch reaches the server and its response the client, or the request
\* or the response is lost and the fetch rejects.
Nets == {"delivered", "request lost", "response lost"}
\* A call of the third-party calendar succeeds, fails, or takes effect there
\* and fails on the way back.
Upstreams == {"ok", "error", "lost"}

Init ==
    /\ users = {}
    /\ tasks = <<>>
    /\ session = [c \in Clients |-> EmptySession]
    /\ issued = {}
    /\ registered = {}
    /\ remote = <<>>
    /\ app = [c \in Clients |-> IdleApp]
    /\ oauth2Client = Null
    /\ awaiting = {}

\* POST /api/auth/register
RegisterHandler(c, b, id, at) ==
    LET row == NewUser(id, b.name, b.email, BcryptHash(b.password))
        token == JwtSign(id, at)
    IN  IF ~Truthy(b.email) \/ ~Truthy(b.password) \/ ~Truthy(b.name)
        THEN Answer(400, ErrorBody("Todos os campos sao obrigatorios"))
        ELSE IF b.password.t # "string"
        THEN \* bcrypt.hash rejects inside the try: "Illegal arguments"
             Answer(500, ErrorBody("Erro ao criar usuario"))
        ELSE IF InsertUserFails(row)
        THEN \* "UNIQUE constraint failed: users.id" or "... users.email"
             Answer(400, ErrorBody("Email ja cadastrado"))
        ELSE [Answer(200, [SuccessBody EXCEPT !.userId = id, !.token = token])
                EXCEPT !.users = users \cup {row},
                       !.session = SetSessionToken(c, token),
                       !.issued = issued \cup {token},
                       !.registered = registered \cup
                            {[id |-> id, name |-> b.name, email |-> b.email,
                              password |-> b.password]}]

\* POST /api/auth/login
LoginHandler(c, b, major, at) ==
    LET found == UserByEmail(b.email)
    IN  IF found = {}
        THEN Answer(401, ErrorBody("Credenciais invalidas"))
        ELSE LET user == CHOOSE u \in found : TRUE
                 token == JwtSign(user.id, at)
             IN  IF b.password.t # "string"
                 THEN \* bcrypt.compare rejects outside any try/catch
                      Thrown(TRUE, major)
                 ELSE IF ~BcryptCompare(b.password, user.password)
                 THEN Answer(401, ErrorBody("Credenciais invalidas"))
                 ELSE [Answer(200, [SuccessBody EXCEPT !.userId = user.id,
                                                       !.token = token])
                         EXCEPT !.session = SetSessionToken(c, token),
                                !.issued = issued \cup {token}]

\* { isAuthenticated: true, user: { ...user, isPremium: !!user.isPremium } }
\* for a row of SELECT id, name, email, isPremium, brandName, logoUrl,
\* primaryColor, customDomain
StatusBody(user) ==
    [JsonBody EXCEPT !.isAuthenticated = TRUE,
                     !.userId = user.id,
                     !.email = user.email,
                     !.name = user.name,
                     !.isPremium = (user.isPremium # 0),
                     !.brandName = user.brandName,
                     !.logoUrl = user.logoUrl,
                     !.primaryColor = user.primaryColor,
                     !.customDomain = user.customDomain]

\* GET /api/auth/status
StatusHandler(c, auth) ==
    LET token == ResolveToken(auth, session[c])
    IN  IF NoToken(token) \/ ~JwtVerify(token) \/ UserById(token.userId) = {}
        THEN Answer(200, JsonBody)
        ELSE LET user == CHOOSE u \in UserById(token.userId) : TRUE
             IN  Answer(200, StatusBody(user))

LogoutHandlerKeepsTokens(c) ==
    [Answer(200, SuccessBody) EXCEPT
        !.session = [session EXCEPT ![c].token = UndefinedToken]]
\* POST /api/auth/logout: req.session = null
LogoutHandler(c) ==
    [Answer(200, SuccessBody) EXCEPT
        !.session = [session EXCEPT ![c] = EmptySession]]

\* The authenticate middleware: the error it answers 401 with, or "" when it
\* calls next() with req.userId = decoded.userId.
AuthError(token) ==
    IF NoToken(token) THEN "Unauthorized"
    ELSE IF ~JwtVerify(token) THEN "Invalid token"
    ELSE ""
authenticate(auth, sess) == AuthError(ResolveToken(auth, sess))
ReqUserId(auth, sess) == ResolveToken(auth, sess).userId
Unauthorized(c, auth) == Answer(401, ErrorBody(authenticate(auth, session[c])))

\* --------------------------------------------------------------------- tasks
Range(q) == {q[i] : i \in DOMAIN q}

NewTaskWithoutEventId(userId, f) ==
    [id |-> f.id, userId |-> userId, text |-> Bind(f.text), completed |-> 0,
     priority |-> Bind(f.priority), dueDate |-> Bind(f.dueDate),
     googleEventId |-> Null,
     reminderType |-> Bind(OrElse(f.reminderType, "none")),
     reminderTiming |-> Bind(OrElse(f.reminderTiming, "1h")),
     contactInfo |-> Bind(OrElse(f.contactInfo, ""))]
\* The row INSERT INTO tasks writes; completed takes its DEFAULT 0.
NewTask(userId, f) ==
    [id |-> f.id, userId |-> userId, text |-> Bind(f.text), completed |-> 0,
     priority |-> Bind(f.priority), dueDate |-> Bind(f.dueDate),
     googleEventId |-> Bind(f.googleEventId),
     reminderType |-> Bind(OrElse(f.reminderType, "none")),
     reminderTiming |-> Bind(OrElse(f.reminderTiming, "1h")),
     contactInfo |-> Bind(OrElse(f.contactInfo, ""))]

\* The constraints of the tasks table: id PRIMARY KEY, text NOT NULL,
\* userId REFERENCES users(id).
InsertTaskFailsIn(q, row) ==
    \/ \E t \in Range(q) : t.id = row.id
    \/ row.text = Null
    \/ UserById(row.userId) = {}
InsertTaskFails(row) == InsertTaskFailsIn(tasks, row)

\* WHERE userId = ?
OwnedBy(t, userId) == t.userId = userId
TaskMatchesAnyOwner(t, id, userId) == t.id = id
\* WHERE id = ? AND userId = ?
TaskMatches(t, id, userId) == t.id = id /\ t.userId = userId

\* The bytes of a TEXT value.
Utf8(s) ==
    CASE s = "2026-01-01T10:00" ->
            <<50, 48, 50, 54, 45, 48, 49, 45, 48, 49, 84, 49, 48, 58, 48, 48>>
      [] s = "2026-01-01T09:30" ->
            <<50, 48, 50, 54, 45, 48, 49, 45, 48, 49, 84, 48, 57, 58, 51, 48>>
      [] s = "2026-01-01T13:00:00.000Z" ->
            <<50, 48, 50, 54, 45, 48, 49, 45, 48, 49, 84, 49, 51, 58, 48, 48,
              58, 48, 48, 46, 48, 48, 48, 90>>
      [] s = "2025-12-31" -> <<50, 48, 50, 53, 45, 49, 50, 45, 51, 49>>
      [] s = "2026-01-01" -> <<50, 48, 50, 54, 45, 48, 49, 45, 48, 49>>
      [] s = "2026-01-02" -> <<50, 48, 50, 54, 45, 48, 49, 45, 48, 50>>
      [] s = "2026-01-03" -> <<50, 48, 50, 54, 45, 48, 49, 45, 48, 51>>
      [] s = "2026-01-04" -> <<50, 48, 50, 54, 45, 48, 49, 45, 48, 52>>
      [] OTHER -> <<>>
\* The number written in the n decimal digits of b that start at `from`.
Digits(b, from, n) ==
    LET RECURSIVE value(_)
        value(k) == IF k = 0 THEN 0
                    ELSE 10 * value(k - 1) + (b[from + k - 1] - 48)
    IN  value(n)
\* The BINARY collation: memcmp, a proper prefix sorting first.
RECURSIVE MemLess(_, _)
MemLess(a, b) ==
    IF b = <<>> THEN FALSE
    ELSE IF a = <<>> THEN TRUE
    ELSE IF Head(a) # Head(b) THEN Head(a) < Head(b)
    ELSE MemLess(Tail(a), Tail(b))

DueBeforeNever(a, b) == FALSE
\* ORDER BY dueDate ASC: NULL sorts first, TEXT by its bytes, ties keep
\* rowid order.
DueBefore(a, b) ==
    IF a.dueDate = Null THEN b.dueDate # Null
    ELSE IF b.dueDate = Null THEN FALSE
    ELSE MemLess(Utf8(a.dueDate), Utf8(b.dueDate))
RECURSIVE OrderByDueDate(_)
OrderByDueDate(rows) ==
    IF rows = <<>> THEN <<>>
    ELSE LET i == CHOOSE i \in DOMAIN rows :
                    /\ \A j \in DOMAIN rows : ~DueBefore(rows[j], rows[i])
                    /\ \A j \in 1..(i - 1) : DueBefore(rows[i], rows[j])
             rest == [k \in 1..(Len(rows) - 1) |->
                        IF k < i THEN rows[k] ELSE rows[k + 1]]
         IN  <<rows[i]>> \o OrderByDueDate(rest)

\* SELECT * FROM tasks WHERE userId = ? ORDER BY dueDate ASC, on the table q
TasksIn(q, userId) ==
    LET mine(t) == OwnedBy(t, userId)
    IN  OrderByDueDate(SelectSeq(q, mine))
TasksOf(userId) == TasksIn(tasks, userId)

\* tasks.map(t => ({ ...t, completed: !!t.completed }))
ToJson(rows) ==
    [i \in DOMAIN rows |-> [rows[i] EXCEPT !.completed = (rows[i].completed # 0)]]

\* What GET /api/tasks answers the user B from the table q.
Listed(q, B) == ToJson(TasksIn(q, B))

\* GET /api/tasks
GetTasksHandler(c, auth) ==
    IF authenticate(auth, session[c]) # "" THEN Unauthorized(c, auth)
    ELSE Answer(200, [JsonBody EXCEPT
            !.tasks = ToJson(TasksOf(ReqUserId(auth, session[c])))])

\* POST /api/tasks
PostTaskHandler(c, auth, f, major) ==
    LET row == NewTask(ReqUserId(auth, session[c]), f)
    IN  IF authenticate(auth, session[c]) # "" THEN Unauthorized(c, auth)
        ELSE IF InsertTaskFails(row) THEN Thrown(FALSE, major)
        ELSE [Answer(200, SuccessBody) EXCEPT !.tasks = Append(tasks, row)]

SetCompletedAndDueDate(t, completed) ==
    [t EXCEPT !.completed = IF Truthy(completed) THEN 1 ELSE 0,
              !.dueDate = Null]
\* SET completed = ?  with  completed ? 1 : 0
SetCompleted(t, completed) ==
    [t EXCEPT !.completed = IF Truthy(completed) THEN 1 ELSE 0]

\* PUT /api/tasks/:id
PutTaskHandler(c, auth, id, completed) ==
    LET userId == ReqUserId(auth, session[c])
    IN  IF authenticate(auth, session[c]) # "" THEN Unauthorized(c, auth)
        ELSE [Answer(200, SuccessBody) EXCEPT
                !.tasks = [i \in DOMAIN tasks |->
                    IF TaskMatches(tasks[i], id, userId)
                    THEN SetCompleted(tasks[i], completed)
                    ELSE tasks[i]]]

DeleteFromAnyOwner(q, id, userId) ==
    LET kept(t) == t.id # id
    IN  SelectSeq(q, kept)
\* DELETE FROM tasks WHERE id = ? AND userId = ?, on the table q
DeleteFrom(q, id, userId) ==
    LET kept(t) == ~TaskMatches(t, id, userId)
    IN  SelectSeq(q, kept)

\* DELETE /api/tasks/:id
DeleteTaskHandler(c, auth, id) ==
    LET userId == ReqUserId(auth, session[c])
    IN  IF authenticate(auth, session[c]) # "" THEN Unauthorized(c, auth)
        ELSE [Answer(200, SuccessBody) EXCEPT
                !.tasks = DeleteFrom(tasks, id, userId)]

\* ------------------------------------------------------ branding and finance
NotPremiumNever(userId) == FALSE
\* SELECT isPremium FROM users WHERE id = ?  and  !user?.isPremium
NotPremium(userId) == \A u \in UserById(userId) : u.isPremium = 0

UpdateBrandingEveryone(us, userId, f) ==
    {[u EXCEPT !.brandName = Bind(f.brandName),
               !.logoUrl = Bind(f.logoUrl),
               !.primaryColor = Bind(f.primaryColor),
               !.customDomain = Bind(f.customDomain)] : u \in us}
\* UPDATE users SET brandName = ?, logoUrl = ?, primaryColor = ?,
\* customDomain = ? WHERE id = ?, on the table us
UpdateBranding(us, userId, f) ==
    {IF u.id = userId
     THEN [u EXCEPT !.brandName = Bind(f.brandName),
                    !.logoUrl = Bind(f.logoUrl),
                    !.primaryColor = Bind(f.primaryColor),
                    !.customDomain = Bind(f.customDomain)]
     ELSE u : u \in us}

\* PUT /api/user/branding
PutBrandingHandler(c, auth, f) ==
    LET userId == ReqUserId(auth, session[c])
    IN  IF authenticate(auth, session[c]) # "" THEN Unauthorized(c, auth)
        ELSE IF NotPremium(userId)
        THEN Answer(403, ErrorBody("exclusiva para usuarios Premium"))
        ELSE [Answer(200, SuccessBody) EXCEPT
                !.users = UpdateBranding(users, userId, f)]

\* GET /api/finance/pix-qr
GetPixQrHandler(c, auth) ==
    IF authenticate(auth, session[c]) # "" THEN Unauthorized(c, auth)
    ELSE Answer(200, JsonBody)

SetPremiumEveryone(us, userId) == {[u EXCEPT !.isPremium = 1] : u \in us}
\* UPDATE users SET isPremium = 1 WHERE id = ?, on the table us
SetPremium(us, userId) ==
    {IF u.id = userId THEN [u EXCEPT !.isPremium = 1] ELSE u : u \in us}

\* POST /api/finance/confirm-payment
ConfirmPaymentHandler(c, auth) ==
    LET userId == ReqUserId(auth, session[c])
    IN  IF authenticate(auth, session[c]) # "" THEN Unauthorized(c, auth)
        ELSE [Answer(200, SuccessBody) EXCEPT
                !.users = SetPremium(users, userId)]

\* ----------------------------------------------------------------- calendar
\* The tokens oauth2Client.getToken(code) returns for the code of the
\* consent given in browser c.
Tokens(c) == "ya29." \o c

\* GET /auth/callback: oauth2Client.getToken(code), req.session.tokens = tokens
OAuthCallbackHandler(c, upstream) ==
    IF upstream # "ok"
    THEN [Answer(500, NoBody) EXCEPT !.calls = 1]
    ELSE [Answer(200, NoBody) EXCEPT
            !.session = [session EXCEPT ![c].tokens = Tokens(c)],
            !.calls = 1]

NoCredentialNever(sess) == FALSE
\* !req.session?.tokens
NoCredential(sess) == sess.tokens = Null

SetCredentialsOnce(sess) == IF oauth2Client = Null THEN sess.tokens ELSE oauth2Client
\* oauth2Client.setCredentials(req.session.tokens): the credentials the
\* client holds afterwards, which are those the call that follows sends.
SetCredentials(sess) == sess.tokens

\* GET /api/calendar/events
GetEventsHandler(c, upstream) ==
    IF NoCredential(session[c]) THEN Answer(401, ErrorBody("Unauthorized"))
    ELSE IF upstream # "ok"
    THEN [Answer(500, ErrorBody("Failed to fetch events")) EXCEPT
            !.calls = 1, !.oauth2Client = SetCredentials(session[c])]
    ELSE [Answer(200, [JsonBody EXCEPT !.events = remote]) EXCEPT
            !.calls = 1, !.oauth2Client = SetCredentials(session[c])]

\* The event calendar.events.insert creates, with the id and the conference
\* link the calendar gives it.
NewEvent(n, body) ==
    [id |-> "evt_" \o ToString(n), summary |-> body.summary,
     start |-> [dateTime |-> Str(body.startDateTime), date |-> Undef],
     end |-> [dateTime |-> Str(body.endDateTime), date |-> Undef],
     hangoutLink |-> Str("https://meet.google.com/abc-defg-hij")]

\* POST /api/calendar/events
PostEventHandler(c, body, upstream) ==
    LET event == NewEvent(Len(remote) + 1, body)
    IN  IF NoCredential(session[c]) THEN Answer(401, ErrorBody("Unauthorized"))
        ELSE IF upstream = "error"
        THEN [Answer(500, ErrorBody("Failed to create event")) EXCEPT
                !.calls = 1, !.oauth2Client = SetCredentials(session[c])]
        ELSE IF upstream = "lost"
        THEN [Answer(500, ErrorBody("Failed to create event")) EXCEPT
                !.remote = Append(remote, event), !.calls = 1,
                !.oauth2Client = SetCredentials(session[c])]
        ELSE [Answer(200, [JsonBody EXCEPT !.id = event.id]) EXCEPT
                !.remote = Append(remote, event), !.calls = 1,
                !.oauth2Client = SetCredentials(session[c])]

\* The two calendar handlers up to their await: the credentials of the
\* session are set on the client of the process and the third party is
\* called with the credentials the client holds.
CalendarCall(c, route, body) ==
    [client |-> c, route |-> route, body |-> body,
     credentials |-> SetCredentials(session[c])]

\* ------------------------------------------------------------------ addTodo
\* The Authorization header of the client's requests: localStorage holds the
\* token the login or registration answered, which is the one the server
\* put in the cookie session, and handleLogout removes it.
ClientHeader(c) ==
    IF session[c].token.kind = "jwt" THEN Bearer(session[c].token)
    ELSE EmptyHeader

\* No request reached the server.
NoRequest == Answer(0, NoBody)

\* addTodo from the submit to its first await: it returns on a blank text,
\* sends the calendar request when the option is on, a user is logged in and
\* a due date is set, and sends the task otherwise.
AddTodoStart(c, form) ==
    LET fresh == [app[c] EXCEPT !.form = form, !.googleEventId = Undef,
                                !.calendar = NotAsked, !.alert = "",
                                !.logged = FALSE, !.confirmation = FALSE]
    IN  IF Trim(form.newTodo) = "" THEN app[c]
        ELSE IF form.syncWithGoogle /\ form.user /\ form.dueDate # ""
        THEN [fresh EXCEPT !.pc = "calendar"]
        ELSE [fresh EXCEPT !.pc = "task", !.todo = NewTodo(form, Undef)]

AddTodoAfterCalendarKeepsId(c, net, upstream) ==
    LET a == app[c]
        o == IF net = "request lost" THEN NoRequest
             ELSE PostEventHandler(c, CalendarBody(a.form), upstream)
        ok == net = "delivered" /\ o.status = 200
        googleEventId == IF net = "delivered" THEN Str(o.body.id) ELSE Undef
    IN  [o |-> o,
         app |-> [a EXCEPT
                    !.pc = "task",
                    !.googleEventId = googleEventId,
                    !.calendar = [asked |-> TRUE, ok |-> ok,
                                  id |-> IF net = "delivered" THEN o.body.id
                                         ELSE ""],
                    !.logged = (net # "delivered"),
                    !.todo = NewTodo(a.form, googleEventId)]]
\* addTodo from the answer of the calendar request to its second await: the
\* event id is taken from an ok response, a rejected fetch is logged, and
\* the task is sent in every case.
AddTodoAfterCalendar(c, net, upstream) ==
    LET a == app[c]
        o == IF net = "request lost" THEN NoRequest
             ELSE PostEventHandler(c, CalendarBody(a.form), upstream)
        ok == net = "delivered" /\ o.status = 200
        googleEventId == IF ok THEN Str(o.body.id) ELSE Undef
    IN  [o |-> o,
         app |-> [a EXCEPT
                    !.pc = "task",
                    !.googleEventId = googleEventId,
                    !.calendar = [asked |-> TRUE, ok |-> ok,
                                  id |-> IF net = "delivered" THEN o.body.id
                                         ELSE ""],
                    !.logged = (net # "delivered"),
                    !.todo = NewTodo(a.form, googleEventId)]]

\* addTodo from the answer of the task request to its end: an ok response
\* puts the todo in the list and shows the confirmation, a JSON error is
\* shown in an alert, and a rejected fetch or a body that is not JSON is
\* logged and shown as a connection error.
AddTodoAfterTask(c, net, major) ==
    LET a == app[c]
        o == IF net = "request lost" THEN NoRequest
             ELSE PostTaskHandler(c, ClientHeader(c), a.todo, major)
        done == [a EXCEPT !.pc = "idle", !.form = NoForm, !.todo = NoTodo,
                          !.googleEventId = Undef, !.calendar = NotAsked]
    IN  [o |-> o,
         app |-> IF net = "delivered" /\ o.status = 200
                 THEN [done EXCEPT !.todos = <<a.todo>> \o a.todos,
                                   !.confirmation = TRUE]
                 ELSE IF net = "delivered" /\ o.body.json
                 THEN [done EXCEPT !.alert = "Erro ao salvar tarefa"]
                 ELSE [done EXCEPT !.logged = TRUE,
                                   !.alert = "Erro de conexao ao salvar tarefa."]]

\* ------------------------------------------------- toggleTodo and deleteTodo
\* `!todo.completed`
Not(x) == IF Truthy(x) THEN Bool("false") ELSE Bool("true")

\* The todos with the given id, todos.find(t => t.id === id) being the first.
Found(todos, id) == {i \in DOMAIN todos : todos[i].id = id}

\* toggleTodo(id) up to its await: it returns when the list holds no such
\* todo, and sends PUT /api/tasks/:id with the negated flag otherwise.  The
\* call keeps the todos of the render it was made in.
ToggleTodoStart(c, id) ==
    LET a == app[c]
        i == CHOOSE i \in Found(a.todos, id) : \A j \in Found(a.todos, id) : i <= j
    IN  IF Found(a.todos, id) = {} THEN a
        ELSE [a EXCEPT !.inflight = @ \cup
                {[op |-> "toggle", id |-> id,
                  completed |-> Not(a.todos[i].completed),
                  header |-> ClientHeader(c), todos |-> a.todos]}]

\* toggleTodo from the answer of its request: an ok response sets the list
\* to the todos of the call with the flag of that todo negated, and a
\* rejected fetch is logged.
ToggleTodoAfter(c, r, net) ==
    LET a == app[c]
        o == IF net = "request lost" THEN NoRequest
             ELSE PutTaskHandler(c, r.header, r.id, r.completed)
        toggled == [i \in DOMAIN r.todos |->
                        IF r.todos[i].id = r.id
                        THEN [r.todos[i] EXCEPT !.completed = Not(@)]
                        ELSE r.todos[i]]
    IN  [o |-> o,
         app |-> [a EXCEPT !.inflight = @ \ {r},
                           !.todos = IF net = "delivered" /\ o.status = 200
                                     THEN toggled ELSE @,
                           !.logged = IF net = "delivered" THEN @ ELSE TRUE]]

\* deleteTodo(id) up to its await: it sends DELETE /api/tasks/:id.
DeleteTodoStart(c, id) ==
    [app[c] EXCEPT !.inflight = @ \cup
        {[op |-> "delete", id |-> id, completed |-> Undef,
          header |-> ClientHeader(c), todos |-> app[c].todos]}]

\* deleteTodo from the answer of its request: an ok response sets the list
\* to the todos of the call without that todo.
DeleteTodoAfter(c, r, net) ==
    LET a == app[c]
        o == IF net = "request lost" THEN NoRequest
             ELSE DeleteTaskHandler(c, r.header, r.id)
        kept(t) == t.id # r.id
    IN  [o |-> o,
         app |-> [a EXCEPT !.inflight = @ \ {r},
                           !.todos = IF net = "delivered" /\ o.status = 200
                                     THEN SelectSeq(r.todos, kept) ELSE @,
                           !.logged = IF net = "delivered" THEN @ ELSE TRUE]]

\* ------------------------------------------------------ login and logout
\* The Authorization header built from localStorage.getItem('auth_token').
StoredHeader(a) ==
    IF a.auth_token.kind = "undefined" THEN EmptyHeader ELSE Bearer(a.auth_token)

\* The answer to a GET /api/auth/status on its way to the call that awaits
\* it: checkAuthStatus ("check") or handleLogin and handleRegister ("login").
StatusReply(from, o) ==
    [from |-> from, isAuthenticated |-> o.body.isAuthenticated,
     userId |-> o.body.userId]

\* handleLogin and handleRegister from the answer of their POST: an ok
\* answer stores the token and sends the status request, whose answer r is
\* awaited.
HandleLoginAfterPost(a, o, r) ==
    IF o.status = 200
    THEN [a EXCEPT !.auth_token = IF o.body.token.kind = "undefined"
                                  THEN @ ELSE o.body.token,
                   !.replies = @ \cup {r},
                   !.loggedOut = FALSE]
    ELSE a

\* checkAuthStatus from the answer of its request.
CheckAuthStatusAfter(a, r) ==
    IF r.isAuthenticated
    THEN [a EXCEPT !.user = r.userId, !.authMode = "app", !.replies = @ \ {r}]
    ELSE [a EXCEPT !.authMode = "login", !.replies = @ \ {r}]

\* handleLogin and handleRegister from the answer of their status request.
HandleLoginAfterStatus(a, r) ==
    IF r.isAuthenticated
    THEN [a EXCEPT !.user = r.userId, !.authMode = "app", !.replies = @ \ {r}]
    ELSE [a EXCEPT !.replies = @ \ {r}]

\* handleLogout after its fetch.
HandleLogoutAfter(a) ==
    [a EXCEPT !.auth_token = UndefinedToken, !.user = Null,
              !.authMode = "login", !.events = <<>>, !.leaving = FALSE,
              !.loggedOut = TRUE]

\* ---------------------------------------------------------------- reminders
\* new Date(dueDate).getTime() for the local date-time of the input field,
\* in minutes of local time.
GetTime(dueDate) ==
    LET b == Utf8(dueDate)
    IN  (IF Digits(b, 1, 4) = 2025 THEN 0 ELSE Digits(b, 9, 2)) * MinutesPerDay
            + Digits(b, 12, 2) * 60 + Digits(b, 15, 2)

\* The state the reminder effect depends on.
Deps(a) ==
    [todos |-> a.todos, notificationsEnabled |-> a.notificationsEnabled,
     notifiedTasks |-> a.notifiedTasks]

UpcomingAgain(todo, notifiedTasks, now) ==
    /\ ~Truthy(todo.completed)
    /\ Truthy(todo.dueDate)
    /\ GetTime(todo.dueDate.v) > now
    /\ GetTime(todo.dueDate.v) <= now + TenMinutes
\* The todos checkUpcomingTasks raises a notification for.
Upcoming(todo, notifiedTasks, now) ==
    /\ ~Truthy(todo.completed)
    /\ Truthy(todo.dueDate)
    /\ todo.id \notin notifiedTasks
    /\ GetTime(todo.dueDate.v) > now
    /\ GetTime(todo.dueDate.v) <= now + TenMinutes

\* checkUpcomingTasks of the installed effect: it reads the todos and the
\* notified set of its closure, shows a notification for every upcoming
\* todo and adds its id to the notified set of the state.
checkUpcomingTasks(a) ==
    LET upcoming(t) == Upcoming(t, a.effect.deps.notifiedTasks, a.now)
        hits == SelectSeq(a.effect.deps.todos, upcoming)
    IN  [a EXCEPT
            !.notifications = @ \o
                [i \in DOMAIN hits |->
                    [id |-> hits[i].id, at |-> a.now,
                     completed |-> hits[i].completed,
                     dueDate |-> hits[i].dueDate]],
            !.notifiedTasks = @ \cup {hits[i].id : i \in DOMAIN hits}]

\* A tick of setInterval(checkUpcomingTasks, 30000).
Tick(a) ==
    LET checked == checkUpcomingTasks(a)
    IN  [checked EXCEPT !.effect.timer = Deps(checked)]

\* A render after todos, notificationsEnabled or notifiedTasks changed: the
\* cleanup clears the interval, and the effect of the new render returns
\* when notifications are off and otherwise starts its interval and makes
\* its initial check.
Restart(a) ==
    LET installed == [a EXCEPT !.effect.deps = Deps(a)]
        checked == IF a.notificationsEnabled THEN checkUpcomingTasks(installed)
                   ELSE installed
    IN  [checked EXCEPT !.effect.timer = Deps(checked)]

\* ------------------------------------------------------------ calendar view
\* new Date(year, month, i): midnight of day i in the browser's time zone.
LocalMidnight(i, tz) == [utc |-> i * MinutesPerDay - tz]

\* The date part of Date.prototype.toISOString, which is in UTC.
DateString(n) == IF n = 0 THEN "2025-12-31" ELSE "2026-01-0" \o ToString(n)
ToISODate(date) == DateString(date.utc \div MinutesPerDay)

\* String.prototype.startsWith
StartsWith(s, prefix) ==
    /\ Len(Utf8(prefix)) <= Len(Utf8(s))
    /\ SubSeq(Utf8(s), 1, Len(Utf8(prefix))) = Utf8(prefix)

\* getEventsForDay(day) over the todos and events of the client.
getEventsForDay(day, todos, events) ==
    LET dayStr == ToISODate(day)
        due(t) == Truthy(t.dueDate) /\ StartsWith(t.dueDate.v, dayStr)
        start(e) == IF Truthy(e.start.dateTime) THEN e.start.dateTime
                    ELSE e.start.date
        starts(e) == Truthy(start(e)) /\ StartsWith(start(e).v, dayStr)
        local == SelectSeq(todos, due)
        google == SelectSeq(events, starts)
        localEvents ==
            [i \in DOMAIN local |->
                [id |-> local[i].id, summary |-> local[i].text,
                 isLocal |-> TRUE, completed |-> local[i].completed,
                 hangoutLink |-> Undef]]
        googleEvents ==
            [i \in DOMAIN google |->
                [id |-> google[i].id, summary |-> Str(google[i].summary),
                 isLocal |-> FALSE, completed |-> Bool("false"),
                 hangoutLink |-> google[i].hangoutLink]]
    IN  localEvents \o googleEvents

\* The lists of at most n entries of S with distinct ids.
ListsOf(S, n) ==
    {q \in UNION {[1..k -> S] : k \in 0..n} :
        \A i \in DOMAIN q, j \in DOMAIN q : q[i].id = q[j].id => i = j}

\* The todos a client list can hold after addTodo and toggleTodo: with or
\* without a due date, completed or not, and with the id of a calendar event
\* when the task was sent to the calendar.
ViewTodos ==
    {[NewTodo([newTodo |-> "buy milk", dueDate |-> d,
               syncWithGoogle |-> (g # Undef), user |-> TRUE, id |-> id], g)
        EXCEPT !.completed = done] :
        id \in TaskIds, d \in {"", "2026-01-01T10:00"},
        g \in {Undef, Str("evt_1")}, done \in Flags}
ReachableTodos == {t \in ViewTodos : t.googleEventId # Undef => t.dueDate # Undef}

\* The events a calendar can hold: the one addTodo creates for that due
\* date, and an all-day event entered in the calendar itself.
AllDayEvent ==
    [id |-> "evt_9", summary |-> "Holiday",
     start |-> [dateTime |-> Undef, date |-> Str("2026-01-02")],
     end |-> [dateTime |-> Undef, date |-> Str("2026-01-03")],
     hangoutLink |-> Undef]
ViewEvents ==
    {NewEvent(1, CalendarBody([newTodo |-> "buy milk",
                               dueDate |-> "2026-01-01T10:00",
                               syncWithGoogle |-> TRUE, user |-> TRUE,
                               id |-> "t1"])),
     AllDayEvent}

\* The single account of the calendar view.
ViewUser == "k3x9"
ViewAccount ==
    [id |-> ViewUser, name |-> Str("Ana"), email |-> Str("ana@x.com"),
     password |-> Str("secret")]

\* A browser in any time zone whose user is logged in and has granted the
\* calendar, showing the tasks the server stores for the user (newest
\* first) and the events of the calendar.
InitView ==
    \E tz \in Offsets, todos \in ListsOf(ReachableTodos, MaxTodos),
       events \in ListsOf(ViewEvents, MaxEvents) :
        /\ users = {NewUser(ViewUser, ViewAccount.name, ViewAccount.email,
                            BcryptHash(ViewAccount.password))}
        /\ tasks = [i \in DOMAIN todos |->
                        SetCompleted(NewTask(ViewUser, todos[Len(todos) + 1 - i]),
                                     todos[Len(todos) + 1 - i].completed)]
        /\ session = [c \in Clients |->
                        IF c = "browser1"
                        THEN [token |-> JwtSign(ViewUser, 0),
                              tokens |-> Tokens(c)]
                        ELSE EmptySession]
        /\ issued = {JwtSign(ViewUser, 0)}
        /\ registered = {ViewAccount}
        /\ remote = events
        /\ app = [c \in Clients |->
                    IF c = "browser1"
                    THEN [IdleApp EXCEPT !.tz = tz, !.todos = todos,
                                         !.events = events]
                    ELSE IdleApp]
        /\ oauth2Client = Tokens("browser1")
        /\ awaiting = {}

\* ------------------------------------------------------------------ actions
Register(c, b, id, at) == Apply(RegisterHandler(c, b, id, at))
Login(c, b, major, at) == Apply(LoginHandler(c, b, major, at))
Status(c, auth) == Apply(StatusHandler(c, auth))
Logout(c) == Apply(LogoutHandler(c))
GetTasks(c, auth) == Apply(GetTasksHandler(c, auth))
PostTask(c, auth, f, major) == Apply(PostTaskHandler(c, auth, f, major))
PutTask(c, auth, id, completed) == Apply(PutTaskHandler(c, auth, id, completed))
DeleteTask(c, auth, id) == Apply(DeleteTaskHandler(c, auth, id))
PutBranding(c, auth, f) == Apply(PutBrandingHandler(c, auth, f))
GetPixQr(c, auth) == Apply(GetPixQrHandler(c, auth))
ConfirmPayment(c, auth) == Apply(ConfirmPaymentHandler(c, auth))

\* The server under requests whose browsers, bodies and clock readings come
\* from D.
Server(D) ==
    \/ \E c \in D.clients, b \in D.registerBodies, id \in UserIds, at \in D.times :
            Register(c, b, id, at)
    \/ \E c \in D.clients, b \in D.loginBodies, major \in ExpressMajors,
          at \in D.times : Login(c, b, major, at)
    \/ \E c \in D.clients, auth \in RunHeaders : Status(c, auth)
    \/ \E c \in D.clients : Logout(c)
    \/ \E c \in D.clients, auth \in RunHeaders : GetTasks(c, auth)
    \/ \E c \in D.clients, auth \in RunHeaders, f \in D.taskBodies,
          major \in ExpressMajors : PostTask(c, auth, f, major)
    \/ \E c \in D.clients, auth \in RunHeaders, id \in TaskIds, completed \in Flags :
            PutTask(c, auth, id, completed)
    \/ \E c \in D.clients, auth \in RunHeaders, id \in TaskIds : DeleteTask(c, auth, id)
    \/ \E c \in D.clients, auth \in RunHeaders, f \in Brandings :
            PutBranding(c, auth, f)
    \/ \E c \in D.clients, auth \in RunHeaders : GetPixQr(c, auth)
    \/ \E c \in D.clients, auth \in RunHeaders : ConfirmPayment(c, auth)

OAuthCallback(c, upstream) == Apply(OAuthCallbackHandler(c, upstream))
GetEvents(c, upstream) == Apply(GetEventsHandler(c, upstream))
PostEvent(c, body, upstream) ==
    /\ upstream # "error" => Len(remote) < MaxEvents
    /\ Apply(PostEventHandler(c, body, upstream))
SubmitTodo(c, form) ==
    /\ app[c].pc = "idle"
    /\ Len(app[c].todos) < MaxTodos
    /\ app' = [app EXCEPT ![c] = AddTodoStart(c, form)]
    /\ UNCHANGED server
CalendarAnswers(c, net, upstream) ==
    /\ app[c].pc = "calendar"
    /\ upstream # "error" => Len(remote) < MaxEvents
    /\ Handle(AddTodoAfterCalendar(c, net, upstream).o)
    /\ app' = [app EXCEPT ![c] = AddTodoAfterCalendar(c, net, upstream).app]
TaskAnswers(c, net, major) ==
    /\ app[c].pc = "task"
    /\ Handle(AddTodoAfterTask(c, net, major).o)
    /\ app' = [app EXCEPT ![c] = AddTodoAfterTask(c, net, major).app]

\* The calendar routes and the addTodo of the clients of D.
Calendar(D) ==
    \/ \E c \in D.clients, upstream \in Upstreams : OAuthCallback(c, upstream)
    \/ \E c \in D.clients, upstream \in Upstreams : GetEvents(c, upstream)
    \/ \E c \in D.clients, body \in CalendarBodies, upstream \in Upstreams :
            PostEvent(c, body, upstream)
    \/ \E c \in D.clients, form \in Forms : SubmitTodo(c, form)
    \/ \E c \in D.clients, net \in Nets, upstream \in Upstreams :
            CalendarAnswers(c, net, upstream)
    \/ \E c \in D.clients, net \in Nets, major \in ExpressMajors :
            TaskAnswers(c, net, major)

\* A click on the checkbox or on the bin of a todo of the list, and the
\* answers of the requests those clicks send.
ToggleTodo(c, id) ==
    /\ Found(app[c].todos, id) # {}
    /\ Cardinality(app[c].inflight) < MaxInFlight
    /\ app' = [app EXCEPT ![c] = ToggleTodoStart(c, id)]
    /\ UNCHANGED server
ToggleAnswers(c, r, net) ==
    /\ r \in app[c].inflight
    /\ r.op = "toggle"
    /\ Handle(ToggleTodoAfter(c, r, net).o)
    /\ app' = [app EXCEPT ![c] = ToggleTodoAfter(c, r, net).app]
DeleteTodo(c, id) ==
    /\ Found(app[c].todos, id) # {}
    /\ Cardinality(app[c].inflight) < MaxInFlight
    /\ app' = [app EXCEPT ![c] = DeleteTodoStart(c, id)]
    /\ UNCHANGED server
DeleteAnswers(c, r, net) ==
    /\ r \in app[c].inflight
    /\ r.op = "delete"
    /\ Handle(DeleteTodoAfter(c, r, net).o)
    /\ app' = [app EXCEPT ![c] = DeleteTodoAfter(c, r, net).app]

\* The id of a new todo joins fresh random digits and the clock reading
\* Date.now(): it is an id the browser has not met before, neither in its
\* list, nor in a request under way, nor in a notification, and no stored
\* task has it.
FreshId(c, id) ==
    /\ Found(app[c].todos, id) = {}
    /\ \A r \in app[c].inflight : r.id # id /\ Found(r.todos, id) = {}
    /\ id \notin app[c].notifiedTasks
    /\ \A t \in Range(tasks) : t.id # id

\* The task list of the clients of D: addTodo without the calendar,
\* toggleTodo and deleteTodo, over a network with the outcomes D.nets; the
\* calls overlap when D.overlap is set and are made in turn otherwise.
TodoList(D) ==
    \/ \E c \in D.clients, form \in D.forms :
            /\ D.overlap \/ app[c].inflight = {}
            /\ FreshId(c, form.id)
            /\ SubmitTodo(c, form)
    \/ \E c \in D.clients, net \in D.nets, major \in ExpressMajors :
            TaskAnswers(c, net, major)
    \/ \E c \in D.clients, id \in TaskIds :
            /\ D.overlap \/ (app[c].inflight = {} /\ app[c].pc = "idle")
            /\ ToggleTodo(c, id)
    \/ \E c \in D.clients, net \in D.nets :
            \E r \in app[c].inflight : ToggleAnswers(c, r, net)
    \/ \E c \in D.clients, id \in TaskIds :
            /\ D.overlap \/ (app[c].inflight = {} /\ app[c].pc = "idle")
            /\ DeleteTodo(c, id)
    \/ \E c \in D.clients, net \in D.nets :
            \E r \in app[c].inflight : DeleteAnswers(c, r, net)

\* The permission for notifications is granted.
EnableNotifications(c) ==
    /\ ~app[c].notificationsEnabled
    /\ app' = [app EXCEPT ![c].notificationsEnabled = TRUE]
    /\ UNCHANGED server
\* The browser's clock moves on.
ClockAdvances(c, t) ==
    /\ t > app[c].now
    /\ app' = [app EXCEPT ![c].now = t]
    /\ UNCHANGED server
\* The interval of the installed effect fires.  It fires 30 seconds after
\* its start or its previous tick, and a render that a state update has
\* scheduled is made at once: while a render is due the interval fires only
\* if its start or previous tick came before the update, that is, left the
\* state as the closure of the effect holds it.
IntervalTicks(c) ==
    /\ app[c].effect.deps.notificationsEnabled
    /\ Deps(app[c]) = app[c].effect.deps \/ app[c].effect.timer = app[c].effect.deps
    /\ app' = [app EXCEPT ![c] = Tick(app[c])]
    /\ UNCHANGED server
\* The render that a change of todos, notificationsEnabled or notifiedTasks
\* has scheduled.
EffectRestarts(c) ==
    /\ Deps(app[c]) # app[c].effect.deps
    /\ app' = [app EXCEPT ![c] = Restart(app[c])]
    /\ UNCHANGED server

\* The reminders of the clients of D.
Reminders(D) ==
    \/ \E c \in D.clients : EnableNotifications(c)
    \/ \E c \in D.clients, t \in Instants : ClockAdvances(c, t)
    \/ \E c \in D.clients : IntervalTicks(c)
    \/ \E c \in D.clients : EffectRestarts(c)

\* A calendar handler reaches its await.
EventsCall(c, route, body) ==
    /\ ~NoCredential(session[c])
    /\ Cardinality(awaiting) < MaxInFlight
    /\ oauth2Client' = CalendarCall(c, route, body).credentials
    /\ awaiting' = awaiting \cup {CalendarCall(c, route, body)}
    /\ UNCHANGED <<users, tasks, session, issued, registered, remote, app>>
\* The third party answers a call: a listing leaves the calendar as it is,
\* an insertion adds the event unless the call has failed.
EventsReturn(call, upstream) ==
    /\ call \in awaiting
    /\ (call.route = "insert" /\ upstream # "error") => Len(remote) < MaxEvents
    /\ remote' = IF call.route = "insert" /\ upstream # "error"
                 THEN Append(remote, NewEvent(Len(remote) + 1, call.body))
                 ELSE remote
    /\ awaiting' = awaiting \ {call}
    /\ UNCHANGED <<users, tasks, session, issued, registered, app, oauth2Client>>

\* The OAuth callbacks and the calendar requests of the clients of D, each
\* request in the two steps around its await.
OAuth(D) ==
    \/ \E c \in D.clients, upstream \in Upstreams : OAuthCallback(c, upstream)
    \/ \E c \in D.clients, route \in {"list", "insert"}, body \in D.calendarBodies :
            EventsCall(c, route, body)
    \/ \E call \in awaiting, upstream \in Upstreams : EventsReturn(call, upstream)
    \/ \E c \in D.clients : Logout(c)

\* checkAuthStatus, on mount and on the OAUTH_AUTH_SUCCESS message: the
\* server answers the request and the answer is on its way.
CheckAuthStatus(c) ==
    /\ Cardinality(app[c].replies) < MaxInFlight
    /\ Handle(StatusHandler(c, StoredHeader(app[c])))
    /\ app' = [app EXCEPT ![c].replies = @ \cup
                {StatusReply("check", StatusHandler(c, StoredHeader(app[c])))}]
\* The login form is submitted in register mode and in login mode: the POST
\* is answered and, when it is ok, so is the status request that follows.
HandleRegister(c, b, id, at) ==
    /\ app[c].authMode # "app"
    /\ Cardinality(app[c].replies) < MaxInFlight
    /\ LET o == RegisterHandler(c, b, id, at)
       IN  /\ Handle(o)
           /\ app' = [app EXCEPT ![c] = HandleLoginAfterPost(@, o,
                        StatusReply("login", StatusHandler(c, Bearer(o.body.token))'))]
HandleLogin(c, b, major, at) ==
    /\ app[c].authMode # "app"
    /\ Cardinality(app[c].replies) < MaxInFlight
    /\ LET o == LoginHandler(c, b, major, at)
       IN  /\ Handle(o)
           /\ app' = [app EXCEPT ![c] = HandleLoginAfterPost(@, o,
                        StatusReply("login", StatusHandler(c, Bearer(o.body.token))'))]
\* An answer to a status request arrives.
ReplyArrives(c, r) ==
    /\ r \in app[c].replies
    /\ app' = [app EXCEPT ![c] = IF r.from = "check"
                                 THEN CheckAuthStatusAfter(@, r)
                                 ELSE HandleLoginAfterStatus(@, r)]
    /\ UNCHANGED server
\* The logout button, shown in the app view: POST /api/auth/logout is
\* answered, and then handleLogout resumes.
HandleLogout(c) ==
    /\ app[c].authMode = "app"
    /\ ~app[c].leaving
    /\ Handle(LogoutHandler(c))
    /\ app' = [app EXCEPT ![c].leaving = TRUE]
LogoutCompletes(c) ==
    /\ app[c].leaving
    /\ app' = [app EXCEPT ![c] = HandleLogoutAfter(@)]
    /\ UNCHANGED server

\* The login state of the pages of D.
AuthView(D) ==
    \/ \E c \in D.clients : CheckAuthStatus(c)
    \/ \E c \in D.clients, b \in D.registerBodies, id \in D.userIds, at \in D.times :
            HandleRegister(c, b, id, at)
    \/ \E c \in D.clients, b \in D.loginBodies, major \in ExpressMajors, at \in D.times :
            HandleLogin(c, b, major, at)
    \/ \E c \in D.clients : \E r \in app[c].replies : ReplyArrives(c, r)
    \/ \E c \in D.clients : HandleLogout(c)
    \/ \E c \in D.clients : LogoutCompletes(c)

\* The registrations of D.
Accounts(D) ==
    \E c \in D.clients, b \in D.registerBodies, id \in D.userIds, at \in D.times :
        Register(c, b, id, at)

\* The calendar grid computes the cell of a day of the month.
ShowDay(c, day) ==
    /\ app' = [app EXCEPT ![c].cell =
                [day |-> day,
                 entries |-> getEventsForDay(LocalMidnight(day, app[c].tz),
                                             app[c].todos, app[c].events)]]
    /\ UNCHANGED server

OnePassword(bodies) == {b \in bodies : b.password # Str("other")}
OneEmail(bodies) == {b \in bodies : b.email # Str("bob@x.com")}
OneTask == {TaskBody("t1", Str("buy milk"), Undef)}

\* Accounts and sessions in full (two browsers, two passwords); one clock
\* reading, one task body.
AuthInputs ==
    [clients |-> Clients, registerBodies |-> RegisterBodies, loginBodies |-> LoginBodies,
     times |-> {0}, taskBodies |-> OneTask]
\* Tokens and sessions in full (every clock reading, two browsers); one
\* account, one task body.
TokenInputs ==
    [clients |-> Clients, registerBodies |-> OneEmail(OnePassword(RegisterBodies)),
     loginBodies |-> OnePassword(LoginBodies),
     times |-> Times, taskBodies |-> OneTask]
\* Tasks in full (every id and due date, and one body without text); one
\* browser, one password, one clock reading.
TaskInputs ==
    [clients |-> {"browser1"}, registerBodies |-> OnePassword(RegisterBodies),
     loginBodies |-> OnePassword(LoginBodies),
     times |-> {0},
     taskBodies |-> {f \in TaskBodies : f.text # Undef \/ f = TaskBody("t1", Undef, Undef)}]

\* The calendar and addTodo in full; one browser, one account with usable
\* fields, one clock reading, one task body.
CalendarInputs ==
    [clients |-> {"browser1"},
     registerBodies |-> {b \in OneEmail(OnePassword(RegisterBodies)) : Defects(b) = 0},
     loginBodies |-> {b \in OneEmail(OnePassword(LoginBodies)) : Defects(b) = 0},
     times |-> {0}, taskBodies |-> OneTask]

\* Two browsers and two accounts with usable fields; one password, one
\* clock reading, one task body.
UserInputs ==
    [clients |-> Clients,
     registerBodies |-> {b \in OnePassword(RegisterBodies) : Defects(b) = 0},
     loginBodies |-> {b \in OnePassword(LoginBodies) : Defects(b) = 0},
     times |-> {0}, taskBodies |-> OneTask]

NextAuth == Server(AuthInputs)
NextUsers == Server(UserInputs)
SpecUsers == Init /\ [][NextUsers]_vars
NextCalendar == Server(CalendarInputs) \/ Calendar(CalendarInputs)
SpecCalendar == Init /\ [][NextCalendar]_vars
NextTokens == Server(TokenInputs)
NextTasks == Server(TaskInputs)
SpecAuth == Init /\ [][NextAuth]_vars
SpecTokens == Init /\ [][NextTokens]_vars
SpecTasks == Init /\ [][NextTasks]_vars
\* One browser and one account; addTodo without the calendar, with and
\* without a due date.
TodoInputs ==
    [clients |-> {"browser1"},
     registerBodies |-> {b \in OneEmail(OnePassword(RegisterBodies)) : Defects(b) = 0},
     times |-> {0}, userIds |-> {"k3x9"},
     forms |-> {[f EXCEPT !.id = id] :
                    f \in {g \in Forms : ~g.syncWithGoogle /\ g.user},
                    id \in TaskIds},
     nets |-> {"delivered"}, overlap |-> TRUE]
\* The same with the calls made in turn and every task given a text and a
\* due date.
ReminderInputs ==
    [TodoInputs EXCEPT
        !.overlap = FALSE,
        !.forms = {f \in @ : Trim(f.newTodo) # "" /\ f.dueDate # ""}]
NextTodos == Accounts(TodoInputs) \/ TodoList(TodoInputs)
SpecTodos == Init /\ [][NextTodos]_vars
NextReminders ==
    Accounts(ReminderInputs) \/ TodoList(ReminderInputs) \/ Reminders(ReminderInputs)
SpecReminders == Init /\ [][NextReminders]_vars
\* Two browsers, one account, one body of a calendar request.
OAuthInputs ==
    [clients |-> Clients,
     registerBodies |-> {b \in OneEmail(OnePassword(RegisterBodies)) : Defects(b) = 0},
     times |-> {0}, userIds |-> {"k3x9"},
     calendarBodies |-> {b \in CalendarBodies : b.summary = "buy milk"}]
NextOAuth == Accounts(OAuthInputs) \/ OAuth(OAuthInputs)
SpecOAuth == Init /\ [][NextOAuth]_vars
\* One page, one account, one clock reading.
LogoutInputs ==
    [clients |-> {"browser1"},
     registerBodies |-> {b \in OneEmail(OnePassword(RegisterBodies)) : Defects(b) = 0},
     loginBodies |-> {b \in OneEmail(OnePassword(LoginBodies)) : Defects(b) = 0},
     times |-> {0}, userIds |-> {"k3x9"}]
NextLogout == AuthView(LogoutInputs)
SpecLogout == Init /\ [][NextLogout]_vars
NextView == \E day \in CalendarDays : ShowDay("browser1", day)
SpecView == InitView /\ [][NextView]_vars

\* =================================================================== claims
\* The caller a request is authenticated as, when authenticate lets it pass.
Authenticated(c, auth) == authenticate(auth, session[c]) = ""
NotOwnedBy(q, userId) ==
    LET other(t) == t.userId # userId
    IN  SelectSeq(q, other)

\* C1: task isolation.  In every reachable state and for every request
\* authenticated as a user B, GET /tasks returns only rows owned by B, and
\* PUT /tasks/:id and DELETE /tasks/:id leave the rows of every other user
\* exactly as they were, whatever id they name.
C1_TaskIsolation ==
    \A c \in Clients, auth \in Headers :
        Authenticated(c, auth) =>
            LET B == ReqUserId(auth, session[c])
                listed == GetTasksHandler(c, auth).body.tasks
            IN  /\ \A i \in DOMAIN listed : listed[i].userId = B
                /\ \A id \in TaskIds, completed \in Flags :
                      NotOwnedBy(PutTaskHandler(c, auth, id, completed).tasks, B)
                        = NotOwnedBy(tasks, B)
                /\ \A id \in TaskIds :
                      NotOwnedBy(DeleteTaskHandler(c, auth, id).tasks, B)
                        = NotOwnedBy(tasks, B)

\* Two users each own a task, A's is completed, and B holds a token.
C1_Witness ==
    \E a \in Range(tasks), b \in Range(tasks), tok \in issued :
        /\ a.userId # b.userId
        /\ a.completed = 1
        /\ tok.userId = b.userId
        /\ Authenticated("browser1", Bearer(tok))

\* C2: credential resolution as the specification words it.  The header wins
\* when it carries a non-empty credential; a header with no credential or an
\* empty one falls through to the session token.
HasCredential(auth) == auth.scheme = "Bearer " /\ auth.cred.kind # "empty"
FirstNonEmptyChannel(auth, sess) ==
    IF HasCredential(auth) THEN auth.cred ELSE sess.token
C3_LoginAfterRegister ==
    \A r \in registered, c \in Clients :
        /\ \A major \in ExpressMajors, at \in Times :
              LET o == LoginHandler(c, [email |-> r.email,
                                        password |-> r.password], major, at)
              IN  /\ o.status = 200
                  /\ o.body.success
                  /\ o.body.userId = r.id
                  /\ JwtVerify(o.body.token)
                  /\ o.body.token.userId = r.id
                  /\ o.body.token \in o.issued
        /\ \A t \in issued :
              t.userId = r.id =>
                 LET s == StatusHandler(c, Bearer(t))
                 IN  /\ s.body.isAuthenticated
                     /\ s.body.userId = r.id
                     /\ s.body.email = r.email.v

\* Two users registered with different passwords, one of them is premium,
\* and the session holds the token of the user who registered first.
C3_Witness ==
    /\ \E r1 \in registered, r2 \in registered :
          /\ r1.password # r2.password
          /\ session["browser1"].token.userId = r1.id
          /\ \E u \in UserById(r2.id) : u.isPremium = 0
          /\ \E u \in UserById(r1.id) : u.isPremium = 1

\* C4 as stated: no two users share an email, and every registration whose
\* email already exists answers 400 with the conflict error, creates no
\* user and leaves the existing records unchanged.
ConflictError == "Email ja cadastrado"
UniqueEmails == \A u1 \in users, u2 \in users : u1.email = u2.email => u1 = u2
C4_DuplicateAlwaysConflict ==
    /\ UniqueEmails
    /\ \A c \in Clients, b \in AllRegisterBodies, id \in UserIds, at \in Times :
          UserByEmail(b.email) # {} =>
             LET o == RegisterHandler(c, b, id, at)
             IN  /\ o.status = 400
                 /\ o.body.error = ConflictError
                 /\ o.users = users

\* C4 as amended: no two users share an email; every registration whose
\* email already exists fails, creates no user and leaves every existing
\* record unchanged; it fails with the conflict error (400) when its name is
\* non-empty and its password is a non-empty string.
C4_EmailUniqueness ==
    /\ UniqueEmails
    /\ \A c \in Clients, b \in AllRegisterBodies, id \in UserIds, at \in Times :
          UserByEmail(b.email) # {} =>
             LET o == RegisterHandler(c, b, id, at)
             IN  /\ o.status >= 400
                 /\ o.users = users
                 /\ o.registered = registered
                 /\ (Good(b.name) /\ Good(b.password)) =>
                        (o.status = 400 /\ o.body.error = ConflictError)

\* Two users exist, one of them premium with branding set, and a
\* registration with that user's email is answered with the conflict error.
C4_Witness ==
    /\ Cardinality(users) = 2
    /\ \E u \in users, b \in RegisterBodies, id \in UserIds :
          /\ u.isPremium = 1
          /\ u.brandName = "Acme"
          /\ Bind(b.email) = u.email
          /\ RegisterHandler("browser1", b, id, 0).body.error = ConflictError

\* C5: every handler answers every request with an HTTP status and a JSON
\* body, and no request ends with an uncaught exception or an unhandled
\* rejection.
Handled(o) == ~o.uncaught /\ o.status # 0 /\ o.body.json
C5_AllErrorsCaught ==
    \A c \in Clients, major \in ExpressMajors :
        /\ \A b \in AllRegisterBodies, id \in UserIds, at \in Times :
              Handled(RegisterHandler(c, b, id, at))
        /\ \A b \in AllLoginBodies, at \in Times :
              Handled(LoginHandler(c, b, major, at))
        /\ Handled(LogoutHandler(c))
        /\ \A auth \in Headers :
              /\ Handled(StatusHandler(c, auth))
              /\ Handled(GetTasksHandler(c, auth))
              /\ \A f \in TaskBodies : Handled(PostTaskHandler(c, auth, f, major))
              /\ \A id \in TaskIds, completed \in Flags :
                    Handled(PutTaskHandler(c, auth, id, completed))
              /\ \A id \in TaskIds : Handled(DeleteTaskHandler(c, auth, id))
              /\ \A f \in Brandings : Handled(PutBrandingHandler(c, auth, f))
              /\ Handled(GetPixQrHandler(c, auth))
              /\ Handled(ConfirmPaymentHandler(c, auth))

\* C6: no revocation.  Every token ever issued is accepted by verify and by
\* authenticate as a bearer credential for its user, in every later state;
\* register and login only add to the issued tokens; logout clears the cookie
\* session of the caller and changes no user, no task and no other session.
C6_NoRevocation ==
    /\ \A t \in issued, c \in Clients :
          /\ JwtVerify(t)
          /\ authenticate(Bearer(t), session[c]) = ""
          /\ ReqUserId(Bearer(t), session[c]) = t.userId
          /\ UserById(t.userId) # {}
          /\ GetTasksHandler(c, Bearer(t)).status = 200
    /\ \A c \in Clients :
          LET o == LogoutHandler(c)
          IN  /\ o.status = 200
              /\ o.users = users
              /\ o.tasks = tasks
              /\ o.issued = issued
              /\ o.session[c].token = UndefinedToken
              /\ \A d \in Clients \ {c} : o.session[d] = session[d]

\* Two tokens of one user are outstanding, the first browser has logged out
\* and the second still holds the older token in its session.
C6_Witness ==
    /\ session["browser1"].token = UndefinedToken
    /\ \E t1 \in issued, t2 \in issued :
          /\ t1.userId = t2.userId
          /\ t1.iat < t2.iat
          /\ session["browser2"].token = t1

\* C7: a successful registration or login stores the issued token in the
\* cookie session and returns that token with the userId in the body; a
\* failed one leaves the session as it was.
IssuesToken(c, o) ==
    IF o.status = 200
    THEN /\ JwtVerify(o.body.token)
         /\ o.session[c].token = o.body.token
         /\ o.body.userId = o.body.token.userId
         /\ UserById(o.body.userId) # {} \/ o.users # users
    ELSE o.session = session
C7_TokenInSessionAndBody ==
    \A c \in Clients, at \in Times :
        /\ \A b \in AllRegisterBodies, id \in UserIds :
              IssuesToken(c, RegisterHandler(c, b, id, at))
        /\ \A b \in AllLoginBodies, major \in ExpressMajors :
              IssuesToken(c, LoginHandler(c, b, major, at))

\* The session holds a token issued earlier, one login fails and leaves it
\* there, and another succeeds with a different token.
C7_Witness ==
    /\ session["browser1"].token \in issued
    /\ \E b \in LoginBodies : LoginHandler("browser1", b, 4, 0).status = 401
    /\ \E b \in LoginBodies :
          LET o == LoginHandler("browser1", b, 4, 1)
          IN  o.status = 200 /\ o.body.token # session["browser1"].token

\* C8: a request to a route guarded by authenticate whose resolved token is
\* absent, malformed or not signed with the secret is answered 401 and leaves
\* the user store, the task store and the session unchanged.
Rejected(o) ==
    /\ o.status = 401
    /\ o.body.error \in {"Unauthorized", "Invalid token"}
    /\ o.users = users
    /\ o.tasks = tasks
    /\ o.session = session
BadToken(token) ==
    \/ token.kind \in {"undefined", "empty", "garbage"}
    \/ token.key # JWT_SECRET
C8_GuardedRoutesReject ==
    \A c \in Clients, auth \in Headers :
        BadToken(ResolveToken(auth, session[c])) =>
            /\ Rejected(GetTasksHandler(c, auth))
            /\ \A f \in TaskBodies, major \in ExpressMajors :
                  Rejected(PostTaskHandler(c, auth, f, major))
            /\ \A id \in TaskIds, completed \in Flags :
                  Rejected(PutTaskHandler(c, auth, id, completed))
            /\ \A id \in TaskIds : Rejected(DeleteTaskHandler(c, auth, id))
            /\ \A f \in Brandings : Rejected(PutBrandingHandler(c, auth, f))
            /\ Rejected(GetPixQrHandler(c, auth))
            /\ Rejected(ConfirmPaymentHandler(c, auth))

\* Users and tasks exist, the session was cleared, and a request that names
\* an existing task with a forged token is answered 401.
C8_Witness ==
    /\ users # {}
    /\ tasks # <<>>
    /\ session["browser1"].token = UndefinedToken
    /\ \E t \in ForgedTokens :
          /\ UserById(t.userId) # {}
          /\ DeleteTaskHandler("browser1", Bearer(t), tasks[1].id).status = 401

\* C9: login failure is generic.  A login with an unknown email and a login
\* with a known email and a password that is not the registered one get the
\* same status 401 and the same body, and neither writes the session.
WrongPassword(b) ==
    /\ UserByEmail(b.email) # {}
    /\ \A r \in registered : ~(r.email = b.email /\ r.password = b.password)
C9_GenericLoginFailure ==
    \A c \in Clients, major \in ExpressMajors, at \in Times,
       b1 \in AllLoginBodies, b2 \in AllLoginBodies :
        (UserByEmail(b1.email) = {} /\ WrongPassword(b2)) =>
            LET o1 == LoginHandler(c, b1, major, at)
                o2 == LoginHandler(c, b2, major, at)
            IN  /\ o1.status = 401
                /\ o2.status = 401
                /\ o1.body = o2.body
                /\ o1.session = session
                /\ o2.session = session

\* C10: a registration whose name, email or password is missing or empty is
\* answered 400 with the validation error, creates no user, issues no token
\* and leaves the session as it was.
MissingOrEmpty(x) == x = Undef \/ x = Str("")
C10_RegisterValidation ==
    \A c \in Clients, b \in AllRegisterBodies, id \in UserIds, at \in Times :
        (MissingOrEmpty(b.name) \/ MissingOrEmpty(b.email)
            \/ MissingOrEmpty(b.password)) =>
            LET o == RegisterHandler(c, b, id, at)
            IN  /\ o.status = 400
                /\ o.body.error = "Todos os campos sao obrigatorios"
                /\ o.body.token = UndefinedToken
                /\ o.users = users
                /\ o.issued = issued
                /\ o.session = session

\* A user is registered and logged out, and a registration with a fresh
\* email and an empty name is answered 400.
C10_Witness ==
    /\ users # {}
    /\ session["browser1"].token = UndefinedToken
    /\ \E b \in RegisterBodies, id \in UserIds :
          /\ b.name = Str("")
          /\ UserByEmail(b.email) = {}
          /\ UserById(id) = {}
          /\ RegisterHandler("browser1", b, id, 0).status = 400

\* C11: for every request authenticated as a user B, PUT /tasks/:id answers
\* success, keeps the number and order of rows, changes at most one row, the
\* one whose id is :id and whose owner is B, changes nothing in that row but
\* its completed column, and leaves the table as it was when no row of B has
\* that id; users, sessions and tokens are untouched.
C11_PutChangesOnlyCompleted ==
    \A c \in Clients, auth \in Headers, id \in PathIds,
       completed \in CompletedInputs :
        Authenticated(c, auth) =>
            LET B == ReqUserId(auth, session[c])
                o == PutTaskHandler(c, auth, id, completed)
                hit == {i \in DOMAIN tasks :
                            tasks[i].id = id /\ tasks[i].userId = B}
            IN  /\ o.status = 200
                /\ o.body.success
                /\ o.users = users
                /\ o.session = session
                /\ o.issued = issued
                /\ DOMAIN o.tasks = DOMAIN tasks
                /\ Cardinality(hit) <= 1
                /\ \A i \in DOMAIN tasks :
                      IF i \in hit
                      THEN /\ [o.tasks[i] EXCEPT !.completed = tasks[i].completed]
                                = tasks[i]
                           /\ o.tasks[i].completed \in {0, 1}
                      ELSE o.tasks[i] = tasks[i]
                /\ hit = {} => o.tasks = tasks

\* The caller owns a completed task with a due date, another user owns the
\* other task; a PUT on the caller's task clears its flag and a PUT on the
\* other user's task changes nothing.
C11_Witness ==
    /\ Authenticated("browser1", NoHeader)
    /\ \E a \in Range(tasks), b \in Range(tasks) :
          /\ a.userId = session["browser1"].token.userId
          /\ b.userId # a.userId
          /\ a.completed = 1
          /\ a.dueDate # Null
          /\ PutTaskHandler("browser1", NoHeader, a.id, Bool("false")).tasks # tasks
          /\ PutTaskHandler("browser1", NoHeader, b.id, Bool("true")).tasks = tasks

\* C12: for every request authenticated as a user B, DELETE /tasks/:id
\* answers success whether or not B has a task with that id, removes exactly
\* the rows of B with that id (at most one) and keeps every other row in
\* place, and leaves users, sessions and tokens alone, so that the same
\* request sent again is authenticated again; applied to the table the first
\* call left, the DELETE removes nothing.
C12_DeleteIdempotent ==
    \A c \in Clients, auth \in Headers, id \in PathIds :
        Authenticated(c, auth) =>
            LET B == ReqUserId(auth, session[c])
                o == DeleteTaskHandler(c, auth, id)
                gone == {i \in DOMAIN tasks :
                            tasks[i].id = id /\ tasks[i].userId = B}
                stays(t) == t.id # id \/ t.userId # B
            IN  /\ o.status = 200
                /\ o.body.success
                /\ Cardinality(gone) <= 1
                /\ Len(o.tasks) = Len(tasks) - Cardinality(gone)
                /\ o.tasks = SelectSeq(tasks, stays)
                /\ o.users = users
                /\ o.session = session
                /\ o.issued = issued
                /\ DeleteFrom(o.tasks, id, B) = o.tasks

\* The caller owns one task and another user owns the other: deleting the
\* caller's task removes one row, and deleting the other user's task or a
\* task that never existed removes none.
C12_Witness ==
    /\ Authenticated("browser1", NoHeader)
    /\ \E a \in Range(tasks), b \in Range(tasks) :
          /\ a.userId = session["browser1"].token.userId
          /\ b.userId # a.userId
          /\ Len(DeleteTaskHandler("browser1", NoHeader, a.id).tasks) = Len(tasks) - 1
          /\ DeleteTaskHandler("browser1", NoHeader, b.id).tasks = tasks
          /\ DeleteTaskHandler("browser1", NoHeader, "t9").tasks = tasks


\* The entries of a list with a given id.
EntriesWithId(list, id) == {i \in DOMAIN list : list[i].id = id}

\* C13 as stated: after a successful POST /tasks the caller's list holds one
\* task with the supplied id; its text, priority, due date, event id and
\* contact address are the supplied values (null for an omitted one), its
\* reminder kind and lead time are the supplied values, or "none" and "1h"
\* when they were omitted, and its completed field is a boolean.
C13_RoundTripAsStated ==
    \A c \in Clients, auth \in Headers, f \in FullTaskBodies,
       major \in ExpressMajors :
        LET B == ReqUserId(auth, session[c])
            o == PostTaskHandler(c, auth, f, major)
            list == Listed(o.tasks, B)
        IN  (Authenticated(c, auth) /\ o.status = 200) =>
                /\ Cardinality(EntriesWithId(list, f.id)) = 1
                /\ \A i \in EntriesWithId(list, f.id) :
                      /\ list[i].text = Bind(f.text)
                      /\ list[i].priority = Bind(f.priority)
                      /\ list[i].dueDate = Bind(f.dueDate)
                      /\ list[i].googleEventId = Bind(f.googleEventId)
                      /\ list[i].contactInfo = Bind(f.contactInfo)
                      /\ list[i].reminderType =
                            IF f.reminderType = Undef THEN "none"
                            ELSE Bind(f.reminderType)
                      /\ list[i].reminderTiming =
                            IF f.reminderTiming = Undef THEN "1h"
                            ELSE Bind(f.reminderTiming)
                      /\ list[i].completed \in BOOLEAN

\* C13 as amended: after a successful POST /tasks the caller's list holds one
\* task with the supplied id; its text, priority, due date and event id are
\* the supplied values (null for an omitted one); its reminder kind, lead
\* time and contact address are the supplied values when these are non-empty
\* and "none", "1h" and the empty string when they were omitted or empty;
\* its completed field is the boolean false.
C13_RoundTrip ==
    \A c \in Clients, auth \in Headers, f \in FullTaskBodies,
       major \in ExpressMajors :
        LET B == ReqUserId(auth, session[c])
            o == PostTaskHandler(c, auth, f, major)
            list == Listed(o.tasks, B)
        IN  (Authenticated(c, auth) /\ o.status = 200) =>
                /\ o.body.success
                /\ Cardinality(EntriesWithId(list, f.id)) = 1
                /\ \A i \in EntriesWithId(list, f.id) :
                      /\ list[i].text = Bind(f.text)
                      /\ list[i].priority = Bind(f.priority)
                      /\ list[i].dueDate = Bind(f.dueDate)
                      /\ list[i].googleEventId = Bind(f.googleEventId)
                      /\ list[i].contactInfo =
                            IF MissingOrEmpty(f.contactInfo) THEN ""
                            ELSE Bind(f.contactInfo)
                      /\ list[i].reminderType =
                            IF MissingOrEmpty(f.reminderType) THEN "none"
                            ELSE Bind(f.reminderType)
                      /\ list[i].reminderTiming =
                            IF MissingOrEmpty(f.reminderTiming) THEN "1h"
                            ELSE Bind(f.reminderTiming)
                      /\ list[i].completed = FALSE

\* The caller already has a completed task; a POST with every field
\* supplied and a POST with every optional field omitted both succeed under
\* the free id and the caller's list grows to two tasks.
C13_Witness ==
    /\ Authenticated("browser1", NoHeader)
    /\ \E f \in FullTaskBodies, g \in FullTaskBodies :
          LET B == session["browser1"].token.userId
              o == PostTaskHandler("browser1", NoHeader, f, 4)
              p == PostTaskHandler("browser1", NoHeader, g, 4)
          IN  /\ f.googleEventId = Str("evt_1")
              /\ f.dueDate = Str("2026-01-01T09:30")
              /\ g.reminderType = Undef
              /\ Len(Listed(tasks, B)) = 1
              /\ Listed(tasks, B)[1].completed
              /\ o.status = 200
              /\ p.status = 200
              /\ Len(Listed(o.tasks, B)) = 2
              /\ Listed(o.tasks, B)[2].googleEventId = "evt_1"

\* The instant a due date of the form YYYY-MM-DDTHH:MM denotes, in minutes
\* (months counted as 31 days: the count orders instants as the calendar
\* does).
Minutes(s) ==
    LET b == Utf8(s)
    IN  (((Digits(b, 1, 4) * 12 + Digits(b, 6, 2)) * 31 + Digits(b, 9, 2)) * 24
            + Digits(b, 12, 2)) * 60 + Digits(b, 15, 2)

\* A list in which every task without a due date comes before every dated
\* task and the dated tasks are in ascending order of their instants.
AscendingByDueDate(list) ==
    \A i \in DOMAIN list, j \in DOMAIN list :
        i < j =>
            /\ list[j].dueDate = Null => list[i].dueDate = Null
            /\ (list[i].dueDate # Null /\ list[j].dueDate # Null) =>
                    Minutes(list[i].dueDate) <= Minutes(list[j].dueDate)

\* The tables of three tasks of one user, with every combination of due
\* dates.
ThreeRowTables ==
    {<<NewTask("k3x9", TaskBody("t1", Str("buy milk"), d1)),
       NewTask("k3x9", TaskBody("t2", Str("buy milk"), d2)),
       NewTask("k3x9", TaskBody("t3", Str("buy milk"), d3))>> :
        d1 \in DueDates, d2 \in DueDates, d3 \in DueDates}

\* The list of every table of three tasks holds the three tasks in ascending
\* order.
ThreeRowListsAscending ==
    \A q \in ThreeRowTables :
        LET list == Listed(q, "k3x9")
        IN  /\ Len(list) = 3
            /\ {list[i].id : i \in DOMAIN list} = {"t1", "t2", "t3"}
            /\ AscendingByDueDate(list)

\* C14: for every request authenticated as a user B, GET /tasks answers 200
\* with the rows owned by B and no others, each once and with its stored
\* fields, the tasks without a due date first and the dated ones in
\* ascending order of due date; the same order holds for the list of every
\* table of three tasks.
C14_ListOwnedAscending ==
    /\ \A c \in Clients, auth \in Headers :
          Authenticated(c, auth) =>
              LET B == ReqUserId(auth, session[c])
                  o == GetTasksHandler(c, auth)
                  list == o.body.tasks
                  owned == {k \in DOMAIN tasks : tasks[k].userId = B}
              IN  /\ o.status = 200
                  /\ o.tasks = tasks
                  /\ Len(list) = Cardinality(owned)
                  /\ \A k \in owned :
                        \E i \in DOMAIN list :
                            [list[i] EXCEPT !.completed = tasks[k].completed]
                                = tasks[k]
                  /\ \A i \in DOMAIN list : list[i].userId = B
                  /\ AscendingByDueDate(list)
    /\ ThreeRowListsAscending

\* The caller created a task due at 10:00 and then one due at 09:30, and the
\* list answers them in the other order.
C14_Witness ==
    /\ Authenticated("browser1", NoHeader)
    /\ Len(tasks) = 2
    /\ tasks[1].userId = session["browser1"].token.userId
    /\ tasks[2].userId = tasks[1].userId
    /\ tasks[1].dueDate = "2026-01-01T10:00"
    /\ tasks[2].dueDate = "2026-01-01T09:30"
    /\ GetTasksHandler("browser1", NoHeader).body.tasks[1].id = tasks[2].id

\* C15: a successful POST /tasks stores the task under the id of the body,
\* and a POST authenticated as a user B whose body repeats a create B has
\* already made (same id, same fields) answers success and leaves exactly
\* one task with that id in B's list.
C15_CreateIdempotent ==
    \A c \in Clients, auth \in Headers, f \in TaskBodies,
       major \in ExpressMajors :
        Authenticated(c, auth) =>
            LET B == ReqUserId(auth, session[c])
                o == PostTaskHandler(c, auth, f, major)
                repeated == \E t \in Range(tasks) :
                                [t EXCEPT !.completed = 0] = NewTask(B, f)
            IN  /\ o.tasks # tasks =>
                      o.tasks = Append(tasks, NewTask(B, f))
                /\ repeated =>
                      /\ o.status = 200
                      /\ o.body.success
                      /\ Cardinality(EntriesWithId(Listed(o.tasks, B), f.id)) = 1

\* The branding of a user row or of a status answer, and the branding a
\* PUT /user/branding body submits (null for an omitted field).
BrandingOf(u) ==
    [brandName |-> u.brandName, logoUrl |-> u.logoUrl,
     primaryColor |-> u.primaryColor, customDomain |-> u.customDomain]
Submitted(f) ==
    [brandName |-> Bind(f.brandName), logoUrl |-> Bind(f.logoUrl),
     primaryColor |-> Bind(f.primaryColor), customDomain |-> Bind(f.customDomain)]

\* C16: for every request authenticated as a user B and every branding
\* body, PUT /user/branding answers 403 and leaves the users table as it was
\* while B's premium flag is 0; POST /finance/confirm-payment answers success
\* and leaves B's flag at 1; and while B's flag is 1 the PUT answers success
\* and GET /auth/status then answers for B exactly the four submitted
\* values.
C16_BrandingGate ==
    \A c \in Clients, auth \in Headers :
        Authenticated(c, auth) =>
            LET B == ReqUserId(auth, session[c])
                pay == ConfirmPaymentHandler(c, auth)
            IN  /\ UserById(B) # {}
                /\ pay.status = 200
                /\ pay.body.success
                /\ \A v \in pay.users : v.id = B => v.isPremium = 1
                /\ \A f \in AllBrandings :
                      LET o == PutBrandingHandler(c, auth, f)
                      IN  IF \E u \in UserById(B) : u.isPremium = 0
                          THEN /\ o.status = 403
                               /\ o.body.error # ""
                               /\ o.users = users
                          ELSE /\ o.status = 200
                               /\ o.body.success
                               /\ o.session = session
                               /\ \E v \in o.users : v.id = B
                               /\ \A v \in o.users :
                                     v.id = B =>
                                        /\ StatusBody(v).isAuthenticated
                                        /\ BrandingOf(StatusBody(v)) = Submitted(f)

\* The user of the first browser is premium and the status answer shows the
\* branding that user submitted; the user of the second browser is not
\* premium and is answered 403.
C16_Witness ==
    /\ Authenticated("browser1", NoHeader)
    /\ Authenticated("browser2", NoHeader)
    /\ LET s == StatusHandler("browser1", NoHeader).body
       IN  /\ s.isPremium
           /\ s.brandName = "Acme"
           /\ s.logoUrl = Null
           /\ s.primaryColor = "#112233"
           /\ s.customDomain = "acme.example"
    /\ ~StatusHandler("browser2", NoHeader).body.isPremium
    /\ \A f \in AllBrandings :
          PutBrandingHandler("browser2", NoHeader, f).status = 403

\* P holds of the outcome of every request other than PUT /user/branding
\* and POST /finance/confirm-payment, whatever its browser, header and body.
EveryOtherOutcome(P(_)) ==
    \A c \in Clients, major \in ExpressMajors :
        /\ \A b \in AllRegisterBodies, id \in UserIds, at \in Times :
              P(RegisterHandler(c, b, id, at))
        /\ \A b \in AllLoginBodies, at \in Times :
              P(LoginHandler(c, b, major, at))
        /\ P(LogoutHandler(c))
        /\ \A auth \in Headers :
              /\ P(StatusHandler(c, auth))
              /\ P(GetTasksHandler(c, auth))
              /\ \A f \in TaskBodies : P(PostTaskHandler(c, auth, f, major))
              /\ \A id \in PathIds, completed \in Flags :
                    P(PutTaskHandler(c, auth, id, completed))
              /\ \A id \in PathIds : P(DeleteTaskHandler(c, auth, id))
              /\ P(GetPixQrHandler(c, auth))

\* The outcome keeps every user, with the premium flag it had, and gives
\* every user it adds the flag 0.
KeepsUsers(o) == \A u \in users : \E v \in o.users : v.id = u.id
KeepsPremium(o) ==
    /\ KeepsUsers(o)
    /\ \A v \in o.users :
          IF UserById(v.id) = {} THEN v.isPremium = 0
          ELSE \A u \in UserById(v.id) : v.isPremium = u.isPremium

\* C17: the premium flag is 0 or 1; no request turns a flag from 1 to 0 or
\* removes a user; a user added by a registration has the flag 0; the only
\* request that turns a flag from 0 to 1 is a POST /finance/confirm-payment,
\* and only the flag of the user it is authenticated as.
C17_PremiumOneWay ==
    /\ \A u \in users : u.isPremium \in {0, 1}
    /\ EveryOtherOutcome(KeepsPremium)
    /\ \A c \in Clients, auth \in Headers :
          /\ \A f \in AllBrandings : KeepsPremium(PutBrandingHandler(c, auth, f))
          /\ LET o == ConfirmPaymentHandler(c, auth)
             IN  /\ KeepsUsers(o)
                 /\ Cardinality(o.users) = Cardinality(users)
                 /\ \A u \in users, v \in o.users :
                       (v.id = u.id /\ v.isPremium # u.isPremium) =>
                          /\ u.isPremium = 0
                          /\ v.isPremium = 1
                          /\ Authenticated(c, auth)
                          /\ ReqUserId(auth, session[c]) = u.id

\* One user is premium and the other is not: a confirm-payment by the
\* premium user changes nothing, and one by the other user changes that
\* user's row alone.
C17_Witness ==
    /\ Authenticated("browser1", NoHeader)
    /\ Authenticated("browser2", NoHeader)
    /\ \E u \in users, w \in users :
          /\ u.id = session["browser1"].token.userId
          /\ w.id = session["browser2"].token.userId
          /\ u.isPremium = 1
          /\ w.isPremium = 0
          /\ ConfirmPaymentHandler("browser1", NoHeader).users = users
          /\ ConfirmPaymentHandler("browser2", NoHeader).users
                = (users \ {w}) \cup {[w EXCEPT !.isPremium = 1]}

\* The outcome keeps every user with the branding it had.
KeepsBranding(o) ==
    /\ KeepsUsers(o)
    /\ \A u \in users, v \in o.users :
          v.id = u.id => BrandingOf(v) = BrandingOf(u)

\* C18: no request other than PUT /user/branding changes the branding of any
\* user; a PUT /user/branding changes at most the row of the user it is
\* authenticated as, only while that user's premium flag is 1, and nothing
\* in that row but the four branding columns, which take the submitted
\* values.
C18_BrandingOnlyByPremiumOwner ==
    /\ EveryOtherOutcome(KeepsBranding)
    /\ \A c \in Clients, auth \in Headers :
          /\ KeepsBranding(ConfirmPaymentHandler(c, auth))
          /\ \A f \in AllBrandings :
                LET o == PutBrandingHandler(c, auth, f)
                IN  /\ KeepsUsers(o)
                    /\ Cardinality(o.users) = Cardinality(users)
                    /\ \A u \in users, v \in o.users :
                          (v.id = u.id /\ v # u) =>
                             /\ Authenticated(c, auth)
                             /\ ReqUserId(auth, session[c]) = u.id
                             /\ u.isPremium = 1
                             /\ BrandingOf(v) = Submitted(f)
                             /\ v = [u EXCEPT
                                        !.brandName = v.brandName,
                                        !.logoUrl = v.logoUrl,
                                        !.primaryColor = v.primaryColor,
                                        !.customDomain = v.customDomain]

\* Both users are premium; the caller still has the branding of a new user
\* and the other user has set one: the caller's PUT changes the caller's row
\* and leaves the other user's row as it was.
C18_Witness ==
    /\ Authenticated("browser1", NoHeader)
    /\ \E u \in users, w \in users, f \in Brandings :
          /\ u.id = session["browser1"].token.userId
          /\ w.id # u.id
          /\ u.isPremium = 1
          /\ w.isPremium = 1
          /\ u.primaryColor = "#059669"
          /\ w.brandName = "Acme"
          /\ w \in PutBrandingHandler("browser1", NoHeader, f).users
          /\ u \notin PutBrandingHandler("browser1", NoHeader, f).users

\* An authorization error: 401 or 403 with a JSON error body.
AuthorizationError(o) ==
    o.status \in {401, 403} /\ o.body.json /\ o.body.error # ""

\* C19 as stated: GET and POST /calendar/events answer an authorization
\* error when the session holds no delegated credential and when the call of
\* the third-party calendar fails, and call the third party at most once.
C19_CalendarFailuresAsAuthorizationErrors ==
    \A c \in Clients, upstream \in Upstreams, body \in CalendarBodies :
        LET g == GetEventsHandler(c, upstream)
            p == PostEventHandler(c, body, upstream)
        IN  /\ g.calls <= 1
            /\ p.calls <= 1
            /\ (NoCredential(session[c]) \/ upstream # "ok") =>
                    (AuthorizationError(g) /\ AuthorizationError(p))

\* The outcome leaves the server's own state as it was.
ServerUntouched(o) ==
    /\ o.users = users
    /\ o.tasks = tasks
    /\ o.session = session
    /\ o.issued = issued

\* C19 as amended: when the session holds no delegated credential both
\* routes answer 401 with the JSON error "Unauthorized" and do not call the
\* third-party calendar; when the session holds one they call it exactly
\* once, answer 200 when the call succeeds and 500 with a JSON error body
\* when it fails, and a failed listing changes nothing at the calendar.
C19_CalendarErrors ==
    \A c \in Clients, upstream \in Upstreams, body \in CalendarBodies :
        LET g == GetEventsHandler(c, upstream)
            p == PostEventHandler(c, body, upstream)
        IN  /\ ServerUntouched(g)
            /\ ServerUntouched(p)
            /\ g.remote = remote
            /\ IF session[c].tokens = Null
               THEN /\ g.status = 401 /\ g.body.error = "Unauthorized"
                    /\ p.status = 401 /\ p.body.error = "Unauthorized"
                    /\ g.body.json /\ p.body.json
                    /\ g.calls = 0 /\ p.calls = 0
                    /\ p.remote = remote
               ELSE /\ g.calls = 1 /\ p.calls = 1
                    /\ IF upstream = "ok"
                       THEN /\ g.status = 200 /\ g.body.events = remote
                            /\ p.status = 200
                            /\ p.remote = Append(remote, NewEvent(Len(remote) + 1, body))
                            /\ p.body.id = p.remote[Len(p.remote)].id
                       ELSE /\ g.status = 500 /\ g.body.json
                            /\ g.body.error = "Failed to fetch events"
                            /\ p.status = 500 /\ p.body.json
                            /\ p.body.error = "Failed to create event"

\* The first browser holds a delegated credential and the calendar holds an
\* event: a failing third-party call is answered 500 on both routes, and the
\* second browser, which holds no credential, is answered 401.
C19_Witness ==
    /\ session["browser1"].tokens # Null
    /\ session["browser2"].tokens = Null
    /\ Len(remote) >= 1
    /\ GetEventsHandler("browser1", "ok").body.events = remote
    /\ GetEventsHandler("browser1", "error").status = 500
    /\ \E body \in CalendarBodies :
          PostEventHandler("browser1", body, "error").status = 500
    /\ GetEventsHandler("browser2", "ok").status = 401

\* The forms for which addTodo asks the calendar first.
SyncCase(form) == form.syncWithGoogle /\ form.user /\ form.dueDate # ""

\* C20: an addTodo with a due date, the calendar option and a logged-in user
\* first sends the calendar request and sends no task; the step that takes
\* the calendar answer, whatever that answer is, sends no task itself, shows
\* no alert and leaves the task request to be sent next; the todo it builds
\* carries the id of the created event when the calendar request was
\* delivered and answered ok, and no event id in every other case; and while
\* the task request is under way the todo carries an event id only if the
\* calendar request was answered ok with that id.
C20_CalendarBeforeTask ==
    \A c \in Clients :
        LET a == app[c]
        IN  /\ a.pc = "idle" =>
                 \A form \in Forms :
                    LET s == AddTodoStart(c, form)
                    IN  (Trim(form.newTodo) # "" /\ SyncCase(form)) =>
                            (s.pc = "calendar" /\ s.todo = NoTodo)
            /\ a.pc = "calendar" =>
                 /\ SyncCase(a.form)
                 /\ a.todo = NoTodo
                 /\ \A net \in Nets, upstream \in Upstreams :
                       LET r == AddTodoAfterCalendar(c, net, upstream)
                           ok == net = "delivered" /\ r.o.status = 200
                       IN  /\ r.o.tasks = tasks
                           /\ r.app.pc = "task"
                           /\ r.app.alert = ""
                           /\ r.app.todo.id = a.form.id
                           /\ r.app.todo.text = Str(a.form.newTodo)
                           /\ r.app.todo.dueDate = Str(a.form.dueDate)
                           /\ IF ok
                              THEN /\ r.app.todo.googleEventId = Str(r.o.body.id)
                                   /\ \E i \in DOMAIN r.o.remote \ DOMAIN remote :
                                         r.o.remote[i].id = r.o.body.id
                              ELSE r.app.todo.googleEventId = Undef
            /\ a.pc = "task" =>
                 /\ SyncCase(a.form) = a.calendar.asked
                 /\ a.alert = ""
                 /\ a.todo.googleEventId # Undef =>
                        /\ a.calendar.ok
                        /\ a.todo.googleEventId = Str(a.calendar.id)
                        /\ \E e \in Range(remote) : e.id = a.calendar.id
                 /\ ~a.calendar.ok => a.todo.googleEventId = Undef
                 /\ \A net \in Nets, major \in ExpressMajors :
                       LET r == AddTodoAfterTask(c, net, major)
                       IN  /\ r.app.pc = "idle"
                           /\ r.o.tasks # tasks =>
                                 r.o.tasks[Len(r.o.tasks)].googleEventId
                                    = Bind(a.todo.googleEventId)

\* The calendar request of the addTodo under way was answered ok, the todo
\* carries the id of the event the calendar now holds, and the task request
\* is still to be answered.
C20_Witness ==
    /\ app["browser1"].pc = "task"
    /\ app["browser1"].calendar.ok
    /\ app["browser1"].todo.googleEventId = Str("evt_1")
    /\ Len(remote) = 1
    /\ remote[1].start.dateTime = Str("2026-01-01T13:00:00.000Z")
    /\ tasks = <<>>
    /\ PostTaskHandler("browser1", ClientHeader("browser1"),
                       app["browser1"].todo, 4).status = 200

\* The day of the calendar a date string names, from its digits.
DayOfDate(s) ==
    IF Digits(Utf8(s), 1, 4) = 2025 THEN 0 ELSE Digits(Utf8(s), 9, 2)
\* The day a task is due: the date the user entered, in the browser's zone.
DueDay(t) == DayOfDate(t.dueDate.v)
\* The day an event starts in a browser at offset tz: the day of its date
\* for an all-day event, and the local day of its UTC instant otherwise.
StartDay(e, tz) ==
    IF e.start.dateTime = Undef THEN DayOfDate(e.start.date.v)
    ELSE LET b == Utf8(e.start.dateTime.v)
             utc == DayOfDate(e.start.dateTime.v) * MinutesPerDay
                        + Digits(b, 12, 2) * 60 + Digits(b, 15, 2)
         IN  (utc + tz) \div MinutesPerDay
\* The tasks due on a day followed by the events starting on it, each tagged
\* with its origin.
MergedView(day, tz, todos, events) ==
    LET due(t) == t.dueDate # Undef /\ DueDay(t) = day
        starts(e) == StartDay(e, tz) = day
        local == SelectSeq(todos, due)
        google == SelectSeq(events, starts)
    IN  [i \in DOMAIN local |->
            [id |-> local[i].id, summary |-> local[i].text, isLocal |-> TRUE,
             completed |-> local[i].completed, hangoutLink |-> Undef]]
        \o [i \in DOMAIN google |->
            [id |-> google[i].id, summary |-> Str(google[i].summary),
             isLocal |-> FALSE, completed |-> Bool("false"),
             hangoutLink |-> google[i].hangoutLink]]

\* C21: the cell computed for a day holds exactly the tasks due on that day
\* and the events starting on that day, tasks tagged local and events tagged
\* remote, whatever the offset of the browser's time zone.
C21_MergedViewPerDay ==
    \A c \in Clients :
        app[c].cell.day # 0 =>
            app[c].cell.entries =
                MergedView(app[c].cell.day, app[c].tz, app[c].todos, app[c].events)

\* C22: when a task carries the id of a calendar event and both the task
\* and the event fall on the day of the computed cell, the cell holds the
\* entry of the task and the entry of the event.
C22_NoDeduplication ==
    \A c \in Clients :
        \A i \in DOMAIN app[c].todos, j \in DOMAIN app[c].events :
            LET t == app[c].todos[i]
                e == app[c].events[j]
                cell == app[c].cell
            IN  (/\ t.googleEventId = Str(e.id)
                 /\ DueDay(t) = cell.day
                 /\ StartDay(e, app[c].tz) = cell.day) =>
                    /\ \E k \in DOMAIN cell.entries :
                          cell.entries[k].isLocal /\ cell.entries[k].id = t.id
                    /\ \E k \in DOMAIN cell.entries :
                          ~cell.entries[k].isLocal /\ cell.entries[k].id = e.id

\* The notifications shown for a task id since the page was loaded.
NotificationsFor(a, id) == {i \in DOMAIN a.notifications : a.notifications[i].id = id}

C24_CallsUseOwnCredentials ==
    /\ \A call \in awaiting : call.credentials = Tokens(call.client)
    /\ \A c \in Clients, upstream \in Upstreams, body \in CalendarBodies :
          LET g == GetEventsHandler(c, upstream)
              p == PostEventHandler(c, body, upstream)
          IN  /\ g.calls = 1 => g.oauth2Client = Tokens(c)
              /\ p.calls = 1 => p.oauth2Client = Tokens(c)

\* Two sessions, one logged in and one not, have a call under way, each
\* with its own credentials, after the later call has replaced the
\* credentials the client of the process held for the earlier one.
C24_Witness ==
    /\ \E a \in awaiting, b \in awaiting :
          /\ a.client = "browser1" /\ b.client = "browser2"
          /\ a.credentials = Tokens("browser1")
          /\ b.credentials = Tokens("browser2")
          /\ a.credentials # oauth2Client
    /\ session["browser1"].token.kind = "jwt"
    /\ session["browser2"].token.kind = "undefined"

\* The ids and completion flags of the todos of a client, and of task rows.
ClientFlags(q) == {<<q[i].id, Truthy(q[i].completed)>> : i \in DOMAIN q}
StoredFlags(q) == {<<q[i].id, q[i].completed = 1>> : i \in DOMAIN q}

\* C25: once no request of addTodo, toggleTodo or deleteTodo is under way,
\* the todos of the client are the tasks the server stores for the user,
\* with the same ids and the same completion flags, in whatever order the
\* overlapping requests were answered.
C25_ClientAgreesWithServer ==
    \A c \in TodoInputs.clients :
        (app[c].pc = "idle" /\ app[c].inflight = {})
            => ClientFlags(app[c].todos) = StoredFlags(TasksOf("k3x9"))

\* C26: a registration whose name, email and password are non-empty strings
\* and whose email no stored user has succeeds, whatever id the generator
\* returns, the id of an existing user included; the conflict error is
\* reported only for an email that is stored.
C26_ConflictOnlyForStoredEmail ==
    \A c \in Clients, b \in AllRegisterBodies, id \in UserIds, at \in Times :
        (Good(b.name) /\ Good(b.email) /\ Good(b.password)
                /\ UserByEmail(b.email) = {}) =>
            LET o == RegisterHandler(c, b, id, at)
            IN  /\ o.status = 200
                /\ o.body.error # ConflictError
                /\ \E u \in o.users : u.email = Bind(b.email)

\* C27: a POST /tasks authenticated as a user B leaves every task of the
\* other users as it was, and it succeeds or fails as it would on a table
\* holding B's tasks only: an id another user has chosen neither blocks B's
\* create nor shows in its answer.
C27_TaskIdsDoNotInterfere ==
    \A c \in Clients, auth \in Headers, f \in TaskBodies,
       major \in ExpressMajors :
        Authenticated(c, auth) =>
            LET B == ReqUserId(auth, session[c])
                o == PostTaskHandler(c, auth, f, major)
                mine(t) == OwnedBy(t, B)
                alone == IF InsertTaskFailsIn(SelectSeq(tasks, mine), NewTask(B, f))
                         THEN Thrown(FALSE, major).status ELSE 200
            IN  /\ o.status = alone
                /\ \A i \in DOMAIN tasks :
                      ~mine(tasks[i]) => (i \in DOMAIN o.tasks /\ o.tasks[i] = tasks[i])

\* C28: once handleLogout has completed, and until a login or registration
\* succeeds, the page shows the login view, holds no user and no cached
\* token, whatever answers to earlier status requests arrive.
C28_LoggedOutStays ==
    \A c \in Clients :
        app[c].loggedOut =>
            /\ app[c].authMode = "login"
            /\ app[c].user = Null
            /\ app[c].auth_token = UndefinedToken

\* C29: when the calendar request of an addTodo has been answered ok, then
\* however the task request that follows ends, a task carrying the id of the
\* new event is stored or the calendar does not keep the event.
C29_NoOrphanEvent ==
    \A c \in Clients :
        (app[c].pc = "task" /\ app[c].calendar.ok) =>
            \A net \in Nets, major \in ExpressMajors :
                LET r == AddTodoAfterTask(c, net, major)
                IN  \/ \E t \in Range(r.o.tasks) :
                            t.googleEventId = app[c].calendar.id
                    \/ \A e \in Range(r.o.remote) : e.id # app[c].calendar.id

\* The delegated credentials of every session after a request.
TokensAfter(o) == [c \in Clients |-> o.session[c].tokens]
TokensNow == [c \in Clients |-> session[c].tokens]

\* C30 as stated: POST /auth/logout, POST /auth/login and POST /auth/register
\* leave the delegated credentials of the session as they were.
C30_CredentialsSurviveLogout ==
    \A c \in Clients :
        /\ TokensAfter(LogoutHandler(c)) = TokensNow
        /\ \A b \in AllRegisterBodies, id \in UserIds, at \in Times :
              TokensAfter(RegisterHandler(c, b, id, at)) = TokensNow
        /\ \A b \in AllLoginBodies, major \in ExpressMajors, at \in Times :
              TokensAfter(LoginHandler(c, b, major, at)) = TokensNow

\* C30 as amended: POST /auth/login and POST /auth/register leave the
\* delegated credentials of every session as they were; POST /auth/logout
\* leaves those of the other sessions as they were and empties the session
\* of the request, delegated credentials included; and a session without
\* delegated credentials is answered 401 on both calendar routes, without a
\* call of the third party.
C30_LogoutDropsCredentials ==
    \A c \in Clients :
        /\ \A b \in AllRegisterBodies, id \in UserIds, at \in Times :
              TokensAfter(RegisterHandler(c, b, id, at)) = TokensNow
        /\ \A b \in AllLoginBodies, major \in ExpressMajors, at \in Times :
              TokensAfter(LoginHandler(c, b, major, at)) = TokensNow
        /\ TokensAfter(LogoutHandler(c)) = [TokensNow EXCEPT ![c] = Null]
        /\ LogoutHandler(c).session[c] = EmptySession
        /\ session[c] = EmptySession =>
              \A upstream \in Upstreams, body \in CalendarBodies :
                  /\ GetEventsHandler(c, upstream).status = 401
                  /\ GetEventsHandler(c, upstream).calls = 0
                  /\ PostEventHandler(c, body, upstream).status = 401
                  /\ PostEventHandler(c, body, upstream).calls = 0

\* A logged-in session holds delegated credentials and reads the calendar;
\* its logout empties it, and a login in it keeps the credentials.
C30_Witness ==
    /\ session["browser1"].token.kind = "jwt"
    /\ session["browser1"].tokens = Tokens("browser1")
    /\ GetEventsHandler("browser1", "ok").status = 200
    /\ LogoutHandler("browser1").session["browser1"].tokens = Null
    /\ \E b \in AllLoginBodies :
          /\ LoginHandler("browser1", b, 4, 0).status = 200
          /\ LoginHandler("browser1", b, 4, 0).session["browser1"].tokens
                = Tokens("browser1")
====
